---- MODULE Spec2Model ----
(***************************************************************************)
(* Model of the document processing pipeline of medical-article-summarizer *)
(*                                                                         *)
(*   - the page classifier  (server/utils/referenceDetector.js)            *)
(*   - the prompt sanitizer (server/utils/pdfValidator.js)                 *)
(*   - the orchestrator     (server/controllers/pdfController.js)          *)
(*                                                                         *)
(* A page text is a sequence of lines joined by "\n".  A line is a record  *)
(* [k, lead, body, trail]: k names what the line's body matches among the  *)
(* regular expressions of the source (LineFeatures), lead/trail are the    *)
(* numbers of whitespace characters around the body and body is the number *)
(* of characters of the body.  Character offsets and lengths are computed  *)
(* from these numbers exactly as String.length / substring / trim do.      *)
(***************************************************************************)
EXTENDS Integers, Sequences, FiniteSets, TLC

\* ---------------------------------------------------------------- bounds

\* Longest page text (in lines) given to the classifier.
MaxLines == 4

\* Configured page ceiling (process.env.MAX_PAGES); documents of
\* 0 .. MAX_PAGES + 1 pages are explored.
MAX_PAGES == 3

\* ------------------------------------------------------ program constants

\* analyzePageContent: minimum extracted length, important sections + references
MIN_MIXED_EXTRACT == 100
\* analyzePageContent: minimum pre-reference length, no important sections
MIN_PRE_REF_A0 == 150
\* analyzePageContent: minimum pre-reference length on a reference-like page
MIN_PRE_REF_B == 200
\* hasSubstantiveContent: shortest text that can be substantive
MIN_SUBSTANTIVE_LEN == 100
\* hasSubstantiveContent: text longer than this is accepted without indicators
LONG_TEXT_LEN == 500
\* hasSubstantiveContent: distinct indicator patterns required
MIN_INDICATORS == 2
\* pdfController: characters of page text kept in an analyzed page
TEXT_PREVIEW_LEN == 500
\* pdfController: progress points shared by the pages
PAGE_PROGRESS_POINTS == 50
\* pdfController: percent reported after the summary
FINAL_PERCENT == 100

\* ------------------------------------------------------------- line kinds

\* What the body of a line of each kind matches.  Counts are numbers of
\* matches of the REFERENCE_PATTERNS regular expressions in the line;
\* ind is the set of contentIndicators (1..17, in source order) that match.
NoFeat ==
  [len |-> 0, refHeader |-> FALSE, important |-> FALSE, marker |-> FALSE,
   inject |-> FALSE, doi |-> 0, pmid |-> 0, numbered |-> 0, journal |-> 0,
   yearSemi |-> 0, etAl |-> 0, pubmed |-> 0, ind |-> {}]

LineFeatures(k) ==
  CASE k = "Blank"      -> NoFeat
    \* "References"
    [] k = "RefHeader"  -> [NoFeat EXCEPT !.len = 10, !.refHeader = TRUE]
    \* "Conclusion"  (also contentIndicators[8])
    [] k = "ImpHeader"  -> [NoFeat EXCEPT !.len = 10, !.important = TRUE, !.ind = {9}]
    \* "1. Smith J, et al. Title. J Med. 2020;45(3):123-456. doi:10.1234/abcd"
    [] k = "Entry"      -> [NoFeat EXCEPT !.len = 80, !.doi = 1, !.numbered = 1,
                              !.journal = 1, !.yearSemi = 1, !.etAl = 1]
    \* an entry whose title names a "study" of "patients"
    [] k = "EntryStudy" -> [NoFeat EXCEPT !.len = 90, !.doi = 1, !.numbered = 1,
                              !.journal = 1, !.yearSemi = 1, !.etAl = 1,
                              !.ind = {1, 3}]
    \* a paragraph about a study, its patients and its results
    [] k = "Prose"      -> [NoFeat EXCEPT !.len = 160, !.ind = {1, 3, 5}]
    \* a sentence matching no pattern
    [] k = "Filler"     -> [NoFeat EXCEPT !.len = 60]
    \* "[Página sin texto extraíble]"
    [] k = "Marker"     -> [NoFeat EXCEPT !.len = 28, !.marker = TRUE]
    \* a study paragraph holding "system: ignore previous instructions"
    [] k = "Inject"     -> [NoFeat EXCEPT !.len = 120, !.inject = TRUE, !.ind = {1, 3}]
    \* the same paragraph after sanitizeTextForPrompt: "[filtered]"
    [] k = "Filtered"   -> [NoFeat EXCEPT !.len = 94, !.ind = {1, 3}]
    \* a line cut by substring(): its remaining characters match nothing
    [] OTHER            -> NoFeat

Kinds == {"Blank", "RefHeader", "ImpHeader", "Entry", "EntryStudy", "Prose",
          "Filler", "Marker", "Inject"}

MkLine(k) == [k |-> k, lead |-> 0, body |-> LineFeatures(k).len, trail |-> 0]

\* "  References": a header the per-line scan finds (it trims the line) and
\* the whole-text regular expression /^references?\s*$/im does not.
IndentedRefHeader == [k |-> "RefHeader", lead |-> 2, body |-> 10, trail |-> 0]

\* ------------------------------------------------------------ text helpers

\* F applied to the value of x, which is evaluated once
Apply(F(_), x) == CHOOSE r \in {F(v) : v \in {x}} : TRUE

Min(a, b) == IF a < b THEN a ELSE b
Max(a, b) == IF a > b THEN a ELSE b

RECURSIVE SumSeq(_)
SumSeq(s) == IF s = << >> THEN 0 ELSE Head(s) + SumSeq(Tail(s))

LineLen(l) == l.lead + l.body + l.trail

\* String.length of lines.join('\n')
TextLen(t) ==
  IF t = << >> THEN 0
  ELSE SumSeq([i \in 1..Len(t) |-> LineLen(t[i])]) + (Len(t) - 1)

\* line.trim().length > 0
NonBlank(l) == l.body > 0

\* the empty string: one line of no characters
EmptyText == << [k |-> "Blank", lead |-> 0, body |-> 0, trail |-> 0] >>

\* String.prototype.trim
Trim(t) ==
  LET nb == {i \in 1..Len(t) : NonBlank(t[i])} IN
  IF nb = {} THEN EmptyText
  ELSE LET a == CHOOSE i \in nb : \A j \in nb : i <= j
           b == CHOOSE i \in nb : \A j \in nb : j <= i
       IN [i \in 1..(b - a + 1) |->
             LET l == t[a + i - 1] IN
             [l EXCEPT !.lead  = IF i = 1 THEN 0 ELSE l.lead,
                       !.trail = IF a + i - 1 = b THEN 0 ELSE l.trail]]

\* the first n characters of one line
CutLine(l, n) ==
  IF n >= LineLen(l) THEN l
  ELSE IF n <= l.lead THEN [k |-> "Blank", lead |-> n, body |-> 0, trail |-> 0]
  ELSE IF n >= l.lead + l.body THEN [l EXCEPT !.trail = n - l.lead - l.body]
  ELSE [k |-> "Cut", lead |-> l.lead, body |-> n - l.lead, trail |-> 0]

\* text.substring(0, n)
RECURSIVE Substring(_, _)
Substring(t, n) ==
  IF n <= 0 \/ t = << >> THEN EmptyText
  ELSE IF Len(t) = 1 \/ n <= LineLen(t[1]) THEN << CutLine(t[1], n) >>
  ELSE << t[1] >> \o Substring(Tail(t), n - LineLen(t[1]) - 1)

Feat(l) == LineFeatures(l.k)

\* number of matches of one counting pattern in the text
Count(t, f(_)) == SumSeq([i \in 1..Len(t) |-> f(Feat(t[i]))])

\* t is a prefix of u by character offset
IsPrefix(t, u) == Substring(u, TextLen(t)) = t

\* ------------------------------------------------ JavaScript values

\* a number, the number NaN, and a string holding digits
Num(n) == [type |-> "number", nan |-> FALSE, val |-> n]
NaN == [type |-> "number", nan |-> TRUE, val |-> 0]
Str(n) == [type |-> "string", nan |-> FALSE, val |-> n]

\* !v for a number
Falsy(v) == v.nan \/ v.val = 0

\* v <= n and v >= n for a number: every comparison with NaN is false
LessEq(v, n) == ~v.nan /\ v.val <= n
Less(v, n) == ~v.nan /\ v.val < n
Greater(v, n) == ~v.nan /\ v.val > n

\* ------------------------------------------- referenceDetector.js: thresholds

minDOICount == 2
minPMIDCount == 2
minNumberedEntries == 3
minJournalCitations == 2
minEtAlCount == 2
minYearSemicolons == 3
\* signal families that must be present together for the bonus
minSignalCount == 3

\* Confidence values are exact rationals: a confidence c over a text of L
\* non-blank lines is held as the integer c * ConfScale * L.
ConfScale == 1000 * 100
\* h hundredths, for a text of L non-blank lines
Pts(h, L) == h * 1000 * L

PURE_REFERENCES == "PURE_REFERENCES"
MIXED_CONTENT == "MIXED_CONTENT"
SUBSTANTIVE_CONTENT == "SUBSTANTIVE_CONTENT"
PAGE_CLASSIFICATION == {PURE_REFERENCES, MIXED_CONTENT, SUBSTANTIVE_CONTENT}

\* !pageText : the only falsy string is the empty one
IsEmptyString(t) == TextLen(t) = 0

\* REFERENCE_PATTERNS.headers.some(p => p.test(text)): /^references?\s*$/im
\* matches a line that starts with the header word
HasHeaderLine(t) ==
  \E i \in 1..Len(t) : Feat(t[i]).refHeader /\ t[i].lead = 0

FDoi(f) == f.doi
FPmid(f) == f.pmid
FNumbered(f) == f.numbered
FJournal(f) == f.journal
FYearSemi(f) == f.yearSemi
FEtAl(f) == f.etAl
FPubmed(f) == f.pubmed

\* the confidence threshold of the decision, as a comparison of exact values
IsReferenceConfidence(num, L) == num >= Pts(50, L)

\* Math.round(confidence * 100), the hundredths of the reported confidence
RoundedConfidence(num, L) == (2 * num + 1000 * L) \div (2000 * L)

\* the pattern counts detectReferencePage takes from the trimmed text
ReferenceCounts(text) ==
  [hasHeader |-> HasHeaderLine(text),
   doi |-> Count(text, FDoi),
   pmid |-> Count(text, FPmid),
   numbered |-> Count(text, FNumbered),
   journal |-> Count(text, FJournal),
   yearSemi |-> Count(text, FYearSemi),
   etAl |-> Count(text, FEtAl),
   pubmed |-> Count(text, FPubmed),
   nLines |-> Cardinality({i \in 1..Len(text) : NonBlank(text[i])})]

\* numberedRatio >= THRESHOLDS.minNumberedEntryRatio (0.2)
RatioHit(m) == m.nLines > 0 /\ 5 * m.numbered >= m.nLines

SignalCount(m) ==
  Cardinality({s \in 1..6 :
    \/ s = 1 /\ m.numbered >= minNumberedEntries
    \/ s = 2 /\ m.journal >= minJournalCitations
    \/ s = 3 /\ m.etAl >= minEtAlCount
    \/ s = 4 /\ m.doi >= minDOICount
    \/ s = 5 /\ m.pmid >= minPMIDCount
    \/ s = 6 /\ m.yearSemi >= minYearSemicolons})

\* the sum of the partial scores, before the boosts
BaseConfidence(m) ==
  LET L == Max(m.nLines, 1) IN
    (IF m.hasHeader THEN Pts(30, L) ELSE 0)
  + (IF m.doi >= minDOICount THEN Min(Pts(25, L), m.doi * Pts(5, L)) ELSE 0)
  + (IF m.pmid >= minPMIDCount THEN Min(Pts(25, L), m.pmid * Pts(5, L)) ELSE 0)
  + (IF m.numbered >= minNumberedEntries
       THEN Min(Pts(25, L), m.numbered * Pts(4, L)) ELSE 0)
  \* numberedRatio * 0.25
  + (IF RatioHit(m) THEN m.numbered * 25000 ELSE 0)
  + (IF m.journal >= minJournalCitations
       THEN Min(Pts(25, L), m.journal * Pts(5, L)) ELSE 0)
  + (IF m.yearSemi >= minYearSemicolons
       THEN Min(Pts(25, L), m.yearSemi * Pts(4, L)) ELSE 0)
  + (IF m.etAl >= minEtAlCount THEN Min(Pts(20, L), m.etAl * Pts(3, L)) ELSE 0)
  + (IF m.pubmed >= 1 THEN Min(Pts(20, L), m.pubmed * Pts(5, L)) ELSE 0)

\* if (hasHeader && confidence > 0.2) confidence = Math.min(1.0, confidence * 1.3)
HeaderBoost(m, c) ==
  LET L == Max(m.nLines, 1) IN
  IF m.hasHeader /\ c > Pts(20, L) THEN Min(Pts(100, L), (c * 13) \div 10) ELSE c

\* if (signalCount >= 3) confidence = Math.min(1.0, confidence + 0.15)
SignalBonus(m, c) ==
  LET L == Max(m.nLines, 1) IN
  IF SignalCount(m) >= minSignalCount THEN Min(Pts(100, L), c + Pts(15, L)) ELSE c

FinalConfidence(m) ==
  Min(Pts(100, Max(m.nLines, 1)), SignalBonus(m, HeaderBoost(m, BaseConfidence(m))))

ReasonCount(m) ==
  Cardinality({s \in 1..10 :
    \/ s = 1 /\ m.hasHeader
    \/ s = 2 /\ m.doi >= minDOICount
    \/ s = 3 /\ m.pmid >= minPMIDCount
    \/ s = 4 /\ m.numbered >= minNumberedEntries
    \/ s = 5 /\ RatioHit(m)
    \/ s = 6 /\ m.journal >= minJournalCitations
    \/ s = 7 /\ m.yearSemi >= minYearSemicolons
    \/ s = 8 /\ m.etAl >= minEtAlCount
    \/ s = 9 /\ m.pubmed >= 1
    \/ s = 10 /\ SignalCount(m) >= minSignalCount})

\* the decision and the returned record, from the counts and the confidence
Detection(m, c) ==
  [isReferencePage |-> IsReferenceConfidence(c, Max(m.nLines, 1)),
   confidence |-> RoundedConfidence(c, Max(m.nLines, 1)),
   num |-> c, den |-> ConfScale * Max(m.nLines, 1),
   nReasons |-> ReasonCount(m), signalCount |-> SignalCount(m)]

DetectionOf(m) == LET decide(c) == Detection(m, c) IN Apply(decide, FinalConfidence(m))

detectReferencePage(pageText) ==
  IF IsEmptyString(pageText)
  THEN [isReferencePage |-> FALSE, confidence |-> 0, num |-> 0, den |-> ConfScale,
        nReasons |-> 0, signalCount |-> 0]
  ELSE Apply(DetectionOf, Apply(ReferenceCounts, Trim(pageText)))

\* contentIndicators.filter(p => p.test(trimmed))
MatchedIndicators(t) == UNION {Feat(t[i]).ind : i \in 1..Len(t)}

\* hasSubstantiveContent on the trimmed text
substantiveTrimmed(trimmed) ==
  IF TextLen(trimmed) < MIN_SUBSTANTIVE_LEN
    THEN [hasContent |-> FALSE, reason |-> "Text too short"]
  ELSE IF Cardinality(MatchedIndicators(trimmed)) >= MIN_INDICATORS
    THEN [hasContent |-> TRUE, reason |-> "Found content indicators"]
  ELSE IF detectReferencePage(trimmed).isReferencePage
    THEN [hasContent |-> FALSE, reason |-> "Page detected as references"]
  ELSE IF TextLen(trimmed) > LONG_TEXT_LEN
    THEN [hasContent |-> TRUE, reason |-> "Sufficient text length"]
  ELSE [hasContent |-> FALSE, reason |-> "Insufficient content indicators"]

hasSubstantiveContent(text) ==
  IF IsEmptyString(text) THEN [hasContent |-> FALSE, reason |-> "No text provided"]
  ELSE Apply(substantiveTrimmed, Trim(text))

\* the lines (1-based) holding an important section header
findImportantSections(text) ==
  IF IsEmptyString(text) THEN {}
  ELSE {i \in 1..Len(text) : NonBlank(text[i]) /\ Feat(text[i]).important}

NoRefSection == [found |-> FALSE, lineIndex |-> 0, position |-> 0]

\* lineIndex is 0-based as in the source; position is
\* lines.slice(0, i).join('\n').length
findReferencesSectionStart(text) ==
  LET hits == IF IsEmptyString(text) THEN {}
              ELSE {i \in 1..Len(text) : NonBlank(text[i]) /\ Feat(text[i]).refHeader}
  IN IF hits = {} THEN NoRefSection
     ELSE LET i == CHOOSE h \in hits : \A g \in hits : h <= g
          IN [found |-> TRUE, lineIndex |-> i - 1,
              position |-> TextLen(SubSeq(text, 1, i - 1))]

\* a slice that runs through the header line: lines.slice(0, i + 1)
extractContentThroughHeader(text, refSection) ==
  IF ~refSection.found \/ refSection.position <= 0 THEN text
  ELSE Trim(Substring(text, refSection.position + 1
                              + LineLen(text[refSection.lineIndex + 1])))

extractContentBeforeReferences(text, refSection) ==
  IF ~refSection.found \/ refSection.position <= 0 THEN text
  ELSE Trim(Substring(text, refSection.position))

\* one return statement of analyzePageContent
ClassResult(cls, sections, ref, extract, conf, path) ==
  [classification |-> cls, importantSections |-> sections,
   referenceSection |-> ref, extractableText |-> extract,
   confidence |-> conf, path |-> path]

\* a PURE_REFERENCES result that passes the page text through
PureReferencesExtractKeepsText(text) == text

\* the text a PURE_REFERENCES result carries
PureReferencesExtract(text) == EmptyText

\* steps 1 to 3 of analyzePageContent, and the text before the header
PageParts(text) ==
  LET withRef(ref) ==
        [text |-> text,
         importantSections |-> findImportantSections(text),
         referenceSection |-> ref,
         refMetrics |-> detectReferencePage(text),
         before |-> extractContentBeforeReferences(text, ref),
         \* Case B reads text.substring(0, position).trim() directly
         beforeB |-> Trim(Substring(text, ref.position))]
  IN Apply(withRef, findReferencesSectionStart(text))

\* a Case A that returns MIXED_CONTENT whatever the length of the text
\* before the reference header
ClassifyPartsWithoutMinimum(p) ==
  IF p.importantSections # {} /\ p.referenceSection.found
  THEN ClassResult(MIXED_CONTENT, p.importantSections, p.referenceSection,
                   p.before, 90, "A")
  ELSE ClassResult(SUBSTANTIVE_CONTENT, p.importantSections, NoRefSection,
                   p.text, 80, "C")

\* step 4 of analyzePageContent: the classification logic
ClassifyParts(p) ==
  \* Case A.0: references header, no important section
  IF /\ p.referenceSection.found
     /\ p.importantSections = {}
     /\ TextLen(p.before) >= MIN_PRE_REF_A0
     /\ hasSubstantiveContent(p.before).hasContent
     /\ ~detectReferencePage(p.before).isReferencePage
  THEN ClassResult(MIXED_CONTENT, {}, p.referenceSection, p.before, 80, "A0")
  \* Case A: important sections
  ELSE IF p.importantSections # {}
  THEN IF p.referenceSection.found /\ TextLen(p.before) >= MIN_MIXED_EXTRACT
       THEN ClassResult(MIXED_CONTENT, p.importantSections, p.referenceSection,
                        p.before, 90, "A")
       ELSE ClassResult(SUBSTANTIVE_CONTENT, p.importantSections, NoRefSection,
                        p.text, 85, "A-substantive")
  \* Case B: reference-like page
  ELSE IF p.refMetrics.isReferencePage /\ p.refMetrics.confidence >= 50
  THEN IF /\ p.referenceSection.found
          /\ TextLen(p.beforeB) >= MIN_PRE_REF_B
          /\ hasSubstantiveContent(p.beforeB).hasContent
       THEN ClassResult(MIXED_CONTENT, {}, p.referenceSection, p.beforeB, 75, "B")
       ELSE ClassResult(PURE_REFERENCES, {}, p.referenceSection,
                        PureReferencesExtract(p.text), p.refMetrics.confidence,
                        "B-pure")
  \* Case C: normal content
  ELSE ClassResult(SUBSTANTIVE_CONTENT, p.importantSections, NoRefSection,
                   p.text, 80, "C")

analyzePageContent(pageText) ==
  IF IsEmptyString(pageText)
  THEN ClassResult(SUBSTANTIVE_CONTENT, {}, NoRefSection, EmptyText, 0, "invalid")
  ELSE Apply(ClassifyParts, Apply(PageParts, Trim(pageText)))

\* ------------------------------------------------------------- variables

VARIABLES
  \* the classifier applied to one page text
  cpc,            \* "off" | "input" | "classified"
  pageText,       \* the text given to analyzePageContent
  result,         \* what analyzePageContent returned
  \* one request handled by processPDF
  pc,             \* where processPDF stands: "off" | "received" | "extracting"
                  \*   | "loop" | "analyzing" | "summarizing" | "done"
  hasFile,        \* req.file is set
  fileHead,       \* the first bytes of the upload: five, or the whole file
  numpages,       \* pdfData.numpages as the extractor reports it
  doc,            \* the page texts the extractor yields for the upload
  pages,          \* pages: [pageNumber, text]
  pdfPath,        \* "null" | "upload"
  clientClosed,   \* set by the request's 'close' listener
  writableEnded,  \* res.writableEnded
  events,         \* the events written to the response, in order
  analyzedPages,  \* analyzedPages
  idx,            \* i of the page loop (0-based)
  progressK,      \* number of times progress += progressStep ran
  aiCalls,        \* the AIBackend calls started, in order
  unlinkCount,    \* calls of fs.unlink(pdfPath)
  extraction,     \* the extractTextFromPDF promise: "idle" | "pending"
                  \*   | "settled" | "abandoned"
  exitPath,       \* which return/throw ended processPDF
  closedAt,       \* where processPDF stood when the client disconnected
  classified,     \* per page reached by the loop, the classification it got
  aiThrew,        \* the page numbers for which analyzePage threw
  \* the utility functions and services, each checked on its own
  fpc,            \* "off" | "input" | "returned"
  input,          \* the arguments of the function under check
  output,         \* what it returned
  store,          \* Cache.store, in insertion order
  now,            \* Date.now()
  requests,       \* RateLimiter.requests
  responses       \* what the rate limiter answered, in order

cvars == <<cpc, pageText, result>>

uvars == <<fpc, input, output, store, now, requests, responses>>

\* the utility functions and services are not part of this specification
UtilOff ==
  /\ fpc = "off" /\ input = << >> /\ output = << >>
  /\ store = << >> /\ now = 0 /\ requests = << >> /\ responses = << >>

ovars == <<pc, hasFile, fileHead, numpages, doc, pages, pdfPath, clientClosed,
           writableEnded, events, analyzedPages, idx, progressK, aiCalls,
           unlinkCount, extraction, exitPath, closedAt, classified, aiThrew>>

vars == <<cvars, ovars, uvars>>

NoResult == ClassResult("none", {}, NoRefSection, EmptyText, 0, "none")

\* the lines a page text is made of
LineChoices == {MkLine(k) : k \in Kinds} \cup {IndentedRefHeader}

\* the sequences over S of length 0 .. n
SeqsUpTo(S, n) == UNION {[1..m -> S] : m \in 0..n}

\* every text of 1 .. MaxLines lines
PageTexts == SeqsUpTo(LineChoices, MaxLines) \ {<< >>}

NotClosed == [pc |-> "none", idx |-> 0]

\* the request handler is not part of this specification
OrchestratorOff ==
  /\ pc = "off" /\ hasFile = FALSE /\ fileHead = << >> /\ doc = << >>
  /\ numpages = Num(0)
  /\ pages = << >> /\ pdfPath = "null" /\ clientClosed = FALSE
  /\ writableEnded = FALSE /\ events = << >> /\ analyzedPages = << >>
  /\ idx = 0 /\ progressK = 0 /\ aiCalls = << >> /\ unlinkCount = 0
  /\ extraction = "idle" /\ exitPath = "none" /\ closedAt = NotClosed
  /\ classified = << >>
  /\ aiThrew = {}

InitClassify ==
  /\ cpc = "input"
  /\ pageText \in PageTexts
  /\ result = NoResult
  /\ OrchestratorOff
  /\ UtilOff

Classify ==
  /\ cpc = "input"
  /\ result' = analyzePageContent(pageText)
  /\ cpc' = "classified"
  /\ UNCHANGED <<pageText, ovars, uvars>>

NextClassify == Classify

SpecClassify == InitClassify /\ [][NextClassify]_vars

\* ------------------------------------------------- classifier: properties

Classified == cpc = "classified"
TrimmedPage == Trim(pageText)
DetectedHeader == findReferencesSectionStart(TrimmedPage)
HoldsHeaderLine(t) == \E i \in 1..Len(t) : Feat(t[i]).refHeader

\* C4 (as claimed): a MIXED_CONTENT result's extractableText holds nothing
\* located at or after the detected reference header: it ends at or before
\* the header's offset and holds no reference header line.
C4_MixedExcludesReferences ==
  (Classified /\ result.classification = MIXED_CONTENT)
    => /\ TextLen(result.extractableText) <= DetectedHeader.position
       /\ ~HoldsHeaderLine(result.extractableText)

\* C5: analyzePageContent returns one of the three classifications, and a
\* PURE_REFERENCES result carries the empty string as extractableText.
C5_ExclusiveAndPureEmpty ==
  Classified =>
    /\ result.classification \in PAGE_CLASSIFICATION
    /\ Cardinality({c \in PAGE_CLASSIFICATION : result.classification = c}) = 1
    /\ (result.classification = PURE_REFERENCES
          => TextLen(result.extractableText) = 0)

C5_Witness ==
  /\ Classified
  /\ result.classification = PURE_REFERENCES
  /\ DetectedHeader.found
  /\ TextLen(TrimmedPage) > MIN_PRE_REF_B

ClassifiedParts == PageParts(TrimmedPage)

\* One of the paths that precede the reference scoring is satisfied:
\* important-section header and reference header with at least 100
\* characters before it; important-section header and no reference header;
\* no important-section header and a reference header with enough
\* substantive text before it (either of the two tests the source has).
EarlierPathSatisfied(p) ==
  \/ /\ p.importantSections # {}
     /\ p.referenceSection.found
     /\ TextLen(p.before) >= MIN_MIXED_EXTRACT
  \/ /\ p.importantSections # {}
     /\ ~p.referenceSection.found
  \/ /\ p.importantSections = {}
     /\ p.referenceSection.found
     /\ \/ /\ TextLen(p.before) >= MIN_PRE_REF_A0
           /\ hasSubstantiveContent(p.before).hasContent
           /\ ~detectReferencePage(p.before).isReferencePage
        \/ /\ TextLen(p.beforeB) >= MIN_PRE_REF_B
           /\ hasSubstantiveContent(p.beforeB).hasContent

\* the whole page scores as a reference page
WholePageReferenceLike(p) ==
  p.refMetrics.isReferencePage /\ p.refMetrics.confidence >= 50

\* C24 (as claimed): the paths are tried in order and the first satisfied
\* one wins, so a page that satisfies none of the paths before the reference
\* scoring (in particular one with an important-section header and a
\* reference header preceded by less than 100 characters) and whose
\* whole-page reference confidence is at least 0.5 is classified
\* PURE_REFERENCES with the empty string as extractableText.
C24_PureReferencesWhenNoEarlierPath ==
  (Classified /\ ~IsEmptyString(pageText)) =>
    LET holds(p) ==
          (~EarlierPathSatisfied(p) /\ WholePageReferenceLike(p))
            => /\ result.classification = PURE_REFERENCES
               /\ TextLen(result.extractableText) = 0
    IN Apply(holds, ClassifiedParts)

\* C25 (as claimed): a page with no important-section header is
\* MIXED_CONTENT only if it has a reference header and the text before that
\* header is at least 150 characters long, passes hasSubstantiveContent and
\* is not itself detected as a reference page.
C25_MixedWithoutImportantSection ==
  (Classified /\ ~IsEmptyString(pageText)) =>
    LET holds(p) ==
          (p.importantSections = {} /\ result.classification = MIXED_CONTENT)
            => /\ p.referenceSection.found
               /\ TextLen(p.beforeB) >= MIN_PRE_REF_A0
               /\ hasSubstantiveContent(p.beforeB).hasContent
               /\ ~detectReferencePage(p.beforeB).isReferencePage
    IN Apply(holds, ClassifiedParts)

\* C26 (as claimed): detectReferencePage returns a confidence between 0 and
\* 1 (held in hundredths), and isReferencePage is true exactly when the
\* returned confidence is at least 0.5.
C26_DecisionMatchesReturnedConfidence ==
  Classified =>
    LET holds(d) ==
          /\ d.confidence \in 0..100
          /\ d.isReferencePage <=> d.confidence >= 50
    IN Apply(holds, detectReferencePage(pageText))

\* ------------------------------------------------ pdfService.js: splitIntoPages

MaxSplitPages == 3

\* '[Página vacía - sin texto extraíble]'
EMPTY_DOCUMENT_PAGE == << [k |-> "Marker", lead |-> 0, body |-> 36, trail |-> 0] >>

\* '[Página sin texto extraíble]'
NO_TEXT_PAGE == << MkLine("Marker") >>

\* Math.ceil(a / b) for a >= 0, b > 0
Ceil(a, b) == (a + b - 1) \div b

\* lines.slice(startLine, endLine), both 0-based
Slice(lines, startLine, endLine) ==
  IF endLine <= startLine THEN << >>
  ELSE [i \in 1..(endLine - startLine) |-> lines[startLine + i]]

\* a loop that stops when the lines run out
SplitLoopBoundByLines(numPages, totalLines) == Min(numPages, totalLines)

\* for (let pageNum = 1; pageNum <= numPages; pageNum++)
SplitLoopBound(numPages, totalLines) == numPages

\* one iteration of the loop of splitIntoPages
SplitPage(lines, pageNum, linesPerPage) ==
  LET startLine == (pageNum - 1) * linesPerPage
      endLine == Min(startLine + linesPerPage, Len(lines))
      joined == Trim(Slice(lines, startLine, endLine))
  IN [pageNumber |-> pageNum,
      text |-> IF TextLen(joined) > 0 THEN joined ELSE NO_TEXT_PAGE]

splitIntoPages(fullText, numPages) ==
  IF Falsy(numPages) \/ LessEq(numPages, 0) THEN << >>
  ELSE IF TextLen(Trim(fullText)) = 0
  THEN [i \in 1..numPages.val |-> [pageNumber |-> i, text |-> EMPTY_DOCUMENT_PAGE]]
  ELSE [pageNum \in 1..SplitLoopBound(numPages.val, Len(fullText)) |->
          SplitPage(fullText, pageNum, Ceil(Len(fullText), numPages.val))]

\* ------------------------------------------------ pdfValidator.js helpers

\* sanitizeTextForPrompt: the override phrases and role markers of a line are
\* replaced ("[filtered]") or removed; other lines hold none and are kept
sanitizeLine(l) ==
  IF Feat(l).inject
  THEN [l EXCEPT !.k = "Filtered", !.body = LineFeatures("Filtered").len]
  ELSE l

sanitizeTextForPrompt(text) ==
  IF IsEmptyString(text) THEN EmptyText
  ELSE [i \in 1..Len(text) |-> sanitizeLine(text[i])]

\* a text that still holds a prompt-injection pattern
HoldsInjection(text) == \E i \in 1..Len(text) : Feat(text[i]).inject

\* a ceiling check that lets one page more through
validatePageCountOffByOne(pageCount, maxPages) ==
  IF pageCount.type # "number" \/ Less(pageCount, 1) THEN "invalid"
  ELSE IF Greater(pageCount, maxPages + 1) THEN "exceeds"
  ELSE "ok"

validatePageCount(pageCount, maxPages) ==
  IF pageCount.type # "number" \/ Less(pageCount, 1) THEN "invalid"
  ELSE IF Greater(pageCount, maxPages) THEN "exceeds"
  ELSE "ok"

\* PDF_MAGIC_BYTES: %PDF-
PDF_MAGIC_BYTES == <<37, 80, 68, 70, 45>>

\* Buffer.alloc(5) after fs.readSync(fd, buffer, 0, 5, 0): the first five
\* bytes of the file, zero where the file is shorter
ReadHead(bytes) ==
  [i \in 1..Len(PDF_MAGIC_BYTES) |-> IF i <= Len(bytes) THEN bytes[i] ELSE 0]

\* a comparison that leaves out the last byte of the signature
validateFirstFourBytes(bytes) ==
  \A i \in 1..(Len(PDF_MAGIC_BYTES) - 1) : ReadHead(bytes)[i] = PDF_MAGIC_BYTES[i]

\* validatePDFMagicBytes returns true (it throws otherwise)
validatePDFMagicBytes(bytes) == ReadHead(bytes) = PDF_MAGIC_BYTES

\* -------------------------------------------------- pdfController.js: events

\* error.message as a sequence of pieces; a piece is plain text or a file path
PathPieces == {"/srv/app/uploads/3f2a"}

\* what extractTextFromPDF rejects with: fs.readFileSync failing on the
\* upload, or the parser refusing the file
ExtractFailures ==
  { <<"ENOENT: no such file or directory, open '", "/srv/app/uploads/3f2a", "QUOTE">>,
    <<"Invalid PDF structure">> }

\* what generateSummary throws, and whatever else reaches the outer catch
SummaryFailures ==
  { <<"API returned empty response.">>,
    <<"EACCES: permission denied, open '", "/srv/app/uploads/3f2a", "QUOTE">> }

\* what analyzePage throws
AnalyzeFailure == <<"Invalid API response structure: missing choices or message">>

\* what validatePDFMagicBytes and validatePageCount throw
SignatureMismatch == <<"Invalid PDF file">>
PageLimitExceeded == <<"PDF exceeds the page limit">>

NoMessage == << >>

\* text.replace(/\/[\w\/\-\.]+/g, '[path]')
redactPaths(message) ==
  [i \in 1..Len(message) |->
     IF message[i] \in PathPieces THEN "[path]" ELSE message[i]]

HoldsPath(message) == \E i \in 1..Len(message) : message[i] \in PathPieces

\* an event: exc is the exception message interpolated into it, as sent
Log(msg) == [type |-> "log", percent |-> 0, msg |-> msg, exc |-> NoMessage]
ProgressEvent(p) == [type |-> "progress", percent |-> p, msg |-> "", exc |-> NoMessage]
ErrorEvent(msg) == [type |-> "error", percent |-> 0, msg |-> msg, exc |-> NoMessage]

\* sendLog of a text built from error.message: sendLog redacts what it sends
LogOf(msg, message) == [Log(msg) EXCEPT !.exc = redactPaths(message)]

\* sendEvent({ type: 'error', message: ... }) built from a message
ErrorEventOf(msg, message) == [ErrorEvent(msg) EXCEPT !.exc = message]

\* sendLog('='.repeat(50)); sendLog(title); sendLog('='.repeat(50))
StepBanner(title) == <<Log("====="), Log(title), Log("=====")>>

\* a write guard that looks at clientClosed only
safeWriteIgnoresEnded(evs, closed, ended, es) ==
  IF closed THEN evs ELSE evs \o es

\* safeWrite, for the events one synchronous stretch of the handler sends
safeWrite(evs, closed, ended, es) ==
  IF closed \/ ended THEN evs ELSE evs \o es

\* Math.round(progress) after k additions of 50 / pages.length, unscaled
PercentNotDivided(k, n) == PAGE_PROGRESS_POINTS * k

\* Math.round(progress) after k additions of progressStep = 50 / pages.length
Percent(k, n) == (2 * PAGE_PROGRESS_POINTS * k + n) \div (2 * n)

\* ------------------------------------------- pdfController.js: one page

Entry(pageNumber, analysis, text, flag, cls) ==
  [pageNumber |-> pageNumber, analysis |-> analysis, text |-> text,
   flag |-> flag, contentClassification |-> cls, exc |-> NoMessage]

\* !trimmed || trimmed.startsWith('[Página')
IsEmptyOrPlaceholder(trimmed) ==
  IsEmptyString(trimmed) \/ Feat(trimmed[1]).marker

\* page texts as the extractor yields them: trimmed and not empty
SamplePages ==
  { << MkLine("Marker") >>,
    << MkLine("RefHeader"), MkLine("Entry"), MkLine("Entry"), MkLine("Entry") >>,
    << MkLine("ImpHeader"), MkLine("Prose"), MkLine("RefHeader"), MkLine("Entry") >>,
    << MkLine("Prose") >>,
    << MkLine("Filler") >>,
    << MkLine("Inject"), MkLine("Prose") >>,
    << MkLine("Inject"), MkLine("Prose"), MkLine("RefHeader"), MkLine("Entry") >> }

\* one page of the loop with what the loop body computes from it first:
\* trimmed, and contentAnalysis = analyzePageContent(trimmed, page.pageNumber)
PageView(page) ==
  LET view(trimmed) ==
        [page |-> page, trimmed |-> trimmed, ca |-> analyzePageContent(trimmed)]
  IN Apply(view, Trim(page.text))

\* what the loop body learns about the page before it routes it
Classification(v) ==
  IF IsEmptyOrPlaceholder(v.trimmed) THEN "none" ELSE v.ca.classification

\* a switch that has lost its PURE_REFERENCES case: the page falls to default
RouteWithoutReferenceCase(contentAnalysis) ==
  IF contentAnalysis.classification = MIXED_CONTENT
  THEN MIXED_CONTENT ELSE SUBSTANTIVE_CONTENT

\* switch (contentAnalysis.classification), with its default branch
Route(contentAnalysis) ==
  IF contentAnalysis.classification \in {PURE_REFERENCES, MIXED_CONTENT}
  THEN contentAnalysis.classification
  ELSE SUBSTANTIVE_CONTENT

\* a default branch that sends every page on without the gate
NeedsAIWithoutGate(v) ==
  /\ ~IsEmptyOrPlaceholder(v.trimmed)
  /\ CASE Route(v.ca) = PURE_REFERENCES -> FALSE
       [] Route(v.ca) = MIXED_CONTENT ->
            TextLen(v.ca.extractableText) >= MIN_MIXED_EXTRACT
       [] OTHER -> TRUE

\* the page reaches an await of aiService.analyzePage
NeedsAI(v) ==
  /\ ~IsEmptyOrPlaceholder(v.trimmed)
  /\ CASE Route(v.ca) = PURE_REFERENCES -> FALSE
       [] Route(v.ca) = MIXED_CONTENT ->
            TextLen(v.ca.extractableText) >= MIN_MIXED_EXTRACT
       [] OTHER -> hasSubstantiveContent(v.trimmed).hasContent

\* the text handed to aiService.analyzePage
AiText(v) ==
  IF Route(v.ca) = MIXED_CONTENT
  THEN sanitizeTextForPrompt(v.ca.extractableText)
  ELSE sanitizeTextForPrompt(v.page.text)

\* text.substring(0, 500)
Preview(text) == Substring(text, TEXT_PREVIEW_LEN)

\* the entry pushed for a page that is not sent to the AI
SkipEntry(v) ==
  IF IsEmptyOrPlaceholder(v.trimmed)
  THEN Entry(v.page.pageNumber, "omitted: no extractable text", EmptyText,
             "isEmptyPage", "none")
  ELSE CASE Route(v.ca) = PURE_REFERENCES ->
              Entry(v.page.pageNumber, "reference page response",
                    Preview(v.page.text), "isReferencePage", v.ca.classification)
         [] Route(v.ca) = MIXED_CONTENT ->
              Entry(v.page.pageNumber, "omitted: extracted content too short",
                    Preview(v.page.text), "isLowContent", v.ca.classification)
         [] OTHER ->
              Entry(v.page.pageNumber, "omitted: no substantive content",
                    Preview(v.page.text), "isLowContent", v.ca.classification)

SkipLogs(v) ==
  IF IsEmptyOrPlaceholder(v.trimmed) THEN <<Log("page omitted: no text")>>
  ELSE CASE Route(v.ca) = PURE_REFERENCES -> <<Log("page is pure references")>>
         [] Route(v.ca) = MIXED_CONTENT ->
              <<Log("page has mixed content"), Log("page omitted: extract too short")>>
         [] OTHER -> <<Log("page omitted: low content")>>

\* the entry pushed when aiService.analyzePage returned
AnalysisEntry(v) ==
  IF Route(v.ca) = MIXED_CONTENT
  THEN Entry(v.page.pageNumber, "analysis", Preview(v.ca.extractableText),
             "mixedContentInfo", v.ca.classification)
  ELSE Entry(v.page.pageNumber, "analysis", Preview(v.page.text),
             "none", v.ca.classification)

\* analysis: `[Error analizando página: ${error.message}]`
ErrorEntry(page) ==
  [Entry(page.pageNumber, "error analyzing page", Preview(page.text), "none", "none")
     EXCEPT !.exc = AnalyzeFailure]

\* the exception messages inside result.pages, in page order
RECURSIVE MessagesIn(_)
MessagesIn(list) ==
  IF list = << >> THEN NoMessage ELSE list[1].exc \o MessagesIn(Tail(list))

\* sendEvent({ type: 'complete', result: { pages: analyzedPages, ... } })
CompleteEvent(list) ==
  [type |-> "complete", percent |-> 0, msg |-> "result", exc |-> MessagesIn(list)]

\* a catch block that logs the failure and records nothing
AfterPageErrorDropsPage(list, page) == list

\* the catch block of the page loop
AfterPageError(list, page) == Append(list, ErrorEntry(page))

\* a catch block that also reports the failure as an error event
PageErrorEventsWithError(page) ==
  <<LogOf("error analyzing page", AnalyzeFailure),
    LogOf("skipping page after error", AnalyzeFailure),
    ErrorEvent("error analyzing page")>>

\* what a failed analyzePage sends: the service's log and the catch's log
PageErrorEvents(page) ==
  <<LogOf("error analyzing page", AnalyzeFailure),
    LogOf("skipping page after error", AnalyzeFailure)>>

\* a loop that does not look at clientClosed
LoopNeverCancelled(closed) == FALSE

\* if (clientClosed) return;  at the top of the loop body
LoopCancelled(closed) == closed

\* cleanup placed at the end of the try block instead of in finally
CleanupOnlyOnCompletion(exit, path) == path # "null" /\ exit = "complete"

\* finally: if (pdfPath) fs.unlink(pdfPath, ...)
CleanupUnlinks(exit, path) == path # "null"

\* ------------------------------------------------ pdfController.js: request

MaxDocPages == MAX_PAGES + 1

\* a document over the page ceiling
OversizedDoc == [i \in 1..MaxDocPages |-> << MkLine("Prose") >>]

Docs == SeqsUpTo(SamplePages, MAX_PAGES) \cup {OversizedDoc}

\* the uploads: the signature, a file of four bytes, a wrong fifth byte, an
\* empty file, lower case, and a signature that starts at the second byte
FileHeads ==
  { PDF_MAGIC_BYTES, <<37, 80, 68, 70>>, <<37, 80, 68, 70, 46>>, << >>,
    <<37, 112, 100, 102, 45>>, <<32, 37, 80, 68, 70>> }

\* pdfData.text of a document whose page list is empty
FallbackText == << MkLine("Prose"), MkLine("Filler") >>

\* pdfData.numpages: the length of the page list, or, when the per-page
\* texts are missing, a count that gives no page or one that splits the text
ReportedCounts(d) ==
  IF Len(d) > 0 THEN {Num(Len(d))} ELSE {Num(0), Num(-1), NaN, Num(Len(FallbackText))}

\* what the request is given: it never changes
upload == <<hasFile, fileHead, numpages, doc>>

ClassifierOff == cpc = "off" /\ pageText = EmptyText /\ result = NoResult

Init ==
  /\ ClassifierOff
  /\ UtilOff
  /\ pc = "received"
  /\ hasFile \in BOOLEAN
  /\ fileHead \in FileHeads
  /\ doc \in Docs
  \* a request without a file, or with a file that is no PDF, never reaches
  \* the extractor: one document stands for all
  /\ (~hasFile \/ ~validatePDFMagicBytes(fileHead)) => doc = << >>
  /\ ~hasFile => fileHead = << >>
  /\ numpages \in ReportedCounts(doc)
  /\ (~hasFile \/ ~validatePDFMagicBytes(fileHead)) => numpages = Num(0)
  /\ pages = << >>
  /\ pdfPath = "null"
  /\ clientClosed = FALSE
  /\ writableEnded = FALSE
  /\ events = << >>
  /\ analyzedPages = << >>
  /\ idx = 0
  /\ progressK = 0
  /\ aiCalls = << >>
  /\ unlinkCount = 0
  /\ extraction = "idle"
  /\ exitPath = "none"
  /\ closedAt = NotClosed
  /\ classified = << >>
  /\ aiThrew = {}

\* a finally block that leaves the response open
FinallyWithoutEnd(exit, path) ==
  /\ pc' = "done"
  /\ exitPath' = exit
  /\ unlinkCount' = IF path # "null" THEN unlinkCount + 1 ELSE unlinkCount
  /\ UNCHANGED writableEnded

\* return / throw out of the try block: the finally block
Finally(exit, path) ==
  /\ pc' = "done"
  /\ exitPath' = exit
  /\ unlinkCount' = IF CleanupUnlinks(exit, path) THEN unlinkCount + 1 ELSE unlinkCount
  /\ writableEnded' = TRUE

Send(es) == events' = safeWrite(events, clientClosed, writableEnded, es)

\* processPDF up to its first await
Start ==
  /\ pc = "received"
  /\ IF ~hasFile
     THEN /\ Send(<<Log("no file uploaded"), ErrorEvent("no file uploaded")>>)
          /\ pdfPath' = "null"
          /\ Finally("noFile", "null")
          /\ UNCHANGED extraction
     ELSE IF ~validatePDFMagicBytes(fileHead)
     THEN /\ Send(<<Log("file received"), Log("validating"),
                    LogOf("invalid PDF", SignatureMismatch),
                    ErrorEvent("invalid PDF format")>>)
          /\ pdfPath' = "upload"
          /\ Finally("badMagic", "upload")
          /\ UNCHANGED extraction
     ELSE /\ Send(<<Log("file received"), Log("validating"), Log("format validated"),
                    Log("document hash")>> \o StepBanner("PASO 1")
                  \o <<Log("loading PDF file")>>)
          /\ pdfPath' = "upload"
          /\ extraction' = "pending"
          /\ pc' = "extracting"
          /\ UNCHANGED <<exitPath, unlinkCount, writableEnded>>
  /\ UNCHANGED <<cvars, uvars, upload, pages, clientClosed, analyzedPages,
                 idx, progressK, aiCalls, closedAt, classified, aiThrew>>

\* the extraction resolved before the deadline: steps 2 to 4, up to the loop
ExtractResolve ==
  /\ pc = "extracting" /\ extraction = "pending"
  /\ extraction' = "settled"
  /\ LET loaded == <<Log("PDF loaded")>> \o StepBanner("PASO 2")
         found == IF Len(doc) > 0
                  THEN [i \in 1..Len(doc) |-> [pageNumber |-> i, text |-> doc[i]]]
                  ELSE splitIntoPages(FallbackText, numpages)
         n == Len(found)
     IN IF n = 0
        THEN /\ Send(loaded \o <<Log("no pages detected"), ErrorEvent("no pages detected")>>)
             /\ Finally("noPages", pdfPath)
             /\ UNCHANGED pages
        ELSE IF validatePageCount(Num(n), MAX_PAGES) # "ok"
        THEN /\ Send(loaded \o <<LogOf("page count rejected", PageLimitExceeded),
                                 ErrorEventOf("page count rejected", PageLimitExceeded)>>)
             /\ Finally("pageCount", pdfPath)
             /\ UNCHANGED pages
        ELSE /\ Send(loaded \o <<Log("page count ok")>> \o StepBanner("PASO 3")
                     \o <<Log("analyzing structure"), Log("structure analysis")>>
                     \o StepBanner("PASO 4"))
             /\ pages' = found
             /\ pc' = "loop"
             /\ UNCHANGED <<exitPath, unlinkCount, writableEnded>>
  /\ UNCHANGED <<cvars, uvars, upload, pdfPath, clientClosed, analyzedPages,
                 idx, progressK, aiCalls, closedAt, classified, aiThrew>>

\* the extraction rejected before the deadline
ExtractReject ==
  /\ pc = "extracting" /\ extraction = "pending"
  /\ extraction' = "settled"
  /\ \E error \in ExtractFailures :
       Send(<<LogOf("error loading PDF", error), LogOf("extraction failed", error),
              ErrorEventOf("extraction failed", error)>>)
  /\ Finally("extractFail", pdfPath)
  /\ UNCHANGED <<cvars, uvars, upload, pages, pdfPath, clientClosed,
                 analyzedPages, idx, progressK, aiCalls, closedAt, classified, aiThrew>>

\* the deadline timer of withTimeout fired first; the extraction goes on
ExtractTimeout ==
  /\ pc = "extracting" /\ extraction = "pending"
  /\ extraction' = "abandoned"
  /\ Send(<<Log("extraction timed out"), ErrorEvent("processing time exhausted")>>)
  /\ Finally("timeout", pdfPath)
  /\ UNCHANGED <<cvars, uvars, upload, pages, pdfPath, clientClosed,
                 analyzedPages, idx, progressK, aiCalls, closedAt, classified, aiThrew>>

\* the abandoned extraction settles later: extractTextFromPDF logs through
\* sendLog that it loaded the PDF, or that loading failed, and the promise
\* nobody awaits any more resolves or rejects
LateExtraction ==
  /\ extraction = "abandoned"
  /\ extraction' = "settled"
  /\ \E late \in {Log("PDF loaded")}
                   \cup {LogOf("error loading PDF", error) : error \in ExtractFailures} :
       Send(<<late>>)
  /\ UNCHANGED <<cvars, uvars, pc, upload, pages, pdfPath, clientClosed,
                 writableEnded, analyzedPages, idx, progressK, aiCalls, unlinkCount,
                 exitPath, closedAt, classified, aiThrew>>

\* a loop that takes the pages from the last to the first
CurrentPageDescending == pages[Len(pages) - idx]

\* const page = pages[i]
CurrentPage == pages[idx + 1]

\* if (clientClosed) return;  in the loop, and after it
Cancelled ==
  /\ pc = "loop"
  /\ \/ idx < Len(pages) /\ LoopCancelled(clientClosed)
     \/ idx >= Len(pages) /\ clientClosed
  /\ Finally("cancelled", pdfPath)
  /\ UNCHANGED <<cvars, uvars, upload, pages, pdfPath, clientClosed, events,
                 analyzedPages, idx, progressK, aiCalls, extraction, closedAt, classified, aiThrew>>

\* a page recorded without an AI call: every such branch ends in continue
SkipPage ==
  /\ pc = "loop" /\ idx < Len(pages) /\ ~LoopCancelled(clientClosed)
  /\ \E v \in {PageView(CurrentPage)} :
       /\ ~NeedsAI(v)
       /\ Send(<<Log("processing page")>> \o SkipLogs(v))
       /\ analyzedPages' = Append(analyzedPages, SkipEntry(v))
       /\ classified' = Append(classified, Classification(v))
  /\ idx' = idx + 1
  /\ UNCHANGED <<cvars, uvars, pc, upload, pages, pdfPath, clientClosed,
                 writableEnded, progressK, aiCalls, unlinkCount, extraction,
                 exitPath, closedAt, aiThrew>>

\* a page sent to the AI: up to the await of aiService.analyzePage
StartAnalyzePage ==
  /\ pc = "loop" /\ idx < Len(pages) /\ ~LoopCancelled(clientClosed)
  /\ \E v \in {PageView(CurrentPage)} :
       /\ NeedsAI(v)
       /\ Send(<<Log("processing page")>>
               \o (IF Route(v.ca) = MIXED_CONTENT
                   THEN <<Log("page has mixed content")>> ELSE << >>)
               \o <<Log("analyzing page")>>)
       /\ aiCalls' = Append(aiCalls, [fn |-> "analyzePage",
                                      pageNumber |-> v.page.pageNumber,
                                      texts |-> <<AiText(v)>>])
       /\ classified' = Append(classified, Classification(v))
  /\ pc' = "analyzing"
  /\ UNCHANGED <<cvars, uvars, upload, pages, pdfPath, clientClosed,
                 writableEnded, analyzedPages, idx, progressK, unlinkCount,
                 extraction, exitPath, closedAt, aiThrew>>

\* aiService.analyzePage returned: the MIXED_CONTENT branch ends in continue,
\* the default branch falls through to the progress report
AnalyzeReturn ==
  /\ pc = "analyzing"
  /\ \E v \in {PageView(CurrentPage)} :
       /\ analyzedPages' = Append(analyzedPages, AnalysisEntry(v))
       /\ IF Route(v.ca) = MIXED_CONTENT
          THEN /\ Send(<<Log("page analyzed"),
                         Log("page processed, references excluded")>>)
               /\ UNCHANGED progressK
          ELSE /\ progressK' = progressK + 1
               /\ Send(<<Log("page analyzed"),
                         ProgressEvent(Percent(progressK + 1, Len(pages)))>>)
  /\ idx' = idx + 1
  /\ pc' = "loop"
  /\ UNCHANGED <<cvars, uvars, upload, pages, pdfPath, clientClosed,
                 writableEnded, aiCalls, unlinkCount, extraction, exitPath, closedAt,
                 classified, aiThrew>>

\* aiService.analyzePage threw: the catch block of the loop body
AnalyzeThrow ==
  /\ pc = "analyzing"
  /\ analyzedPages' = AfterPageError(analyzedPages, CurrentPage)
  /\ progressK' = progressK + 1
  /\ Send(PageErrorEvents(CurrentPage)
          \o <<ProgressEvent(Percent(progressK + 1, Len(pages)))>>)
  /\ aiThrew' = aiThrew \cup {CurrentPage.pageNumber}
  /\ idx' = idx + 1
  /\ pc' = "loop"
  /\ UNCHANGED <<cvars, uvars, upload, pages, pdfPath, clientClosed,
                 writableEnded, aiCalls, unlinkCount, extraction, exitPath, closedAt,
                 classified>>

\* step 5, up to the await of aiService.generateSummary
StartSummary ==
  /\ pc = "loop" /\ idx >= Len(pages) /\ ~clientClosed
  /\ Send(StepBanner("PASO 5") \o <<Log("generating summary"), Log("estimated input")>>)
  /\ aiCalls' = Append(aiCalls, [fn |-> "generateSummary", pageNumber |-> 0,
                                 texts |-> [i \in 1..Len(analyzedPages) |->
                                              analyzedPages[i].text]])
  /\ pc' = "summarizing"
  /\ UNCHANGED <<cvars, uvars, upload, pages, pdfPath, clientClosed,
                 writableEnded, analyzedPages, idx, progressK, unlinkCount,
                 extraction, exitPath, closedAt, classified, aiThrew>>

\* generateSummary returned: progress 100, step 6, the complete event
SummaryReturn ==
  /\ pc = "summarizing"
  /\ Send(<<Log("summary generated"), Log("session tokens"),
            ProgressEvent(FINAL_PERCENT)>> \o StepBanner("PASO 6")
          \o <<Log("processing complete"), Log("reminder"),
                CompleteEvent(analyzedPages)>>)
  /\ Finally("complete", pdfPath)
  /\ UNCHANGED <<cvars, uvars, upload, pages, pdfPath, clientClosed,
                 analyzedPages, idx, progressK, aiCalls, extraction, closedAt, classified, aiThrew>>

\* generateSummary threw: the outer catch block
SummaryThrow ==
  /\ pc = "summarizing"
  /\ \E error \in SummaryFailures :
       Send(<<LogOf("error generating summary", error), LogOf("critical error", error),
              ErrorEventOf("critical error", redactPaths(error))>>)
  /\ Finally("summaryFail", pdfPath)
  /\ UNCHANGED <<cvars, uvars, upload, pages, pdfPath, clientClosed,
                 analyzedPages, idx, progressK, aiCalls, extraction, closedAt, classified, aiThrew>>

\* req 'close': runs only while processPDF is suspended at an await
ClientClose ==
  /\ pc \in {"extracting", "analyzing", "summarizing"}
  /\ ~clientClosed
  /\ clientClosed' = TRUE
  /\ closedAt' = [pc |-> pc, idx |-> idx]
  /\ UNCHANGED <<cvars, uvars, pc, upload, pages, pdfPath, writableEnded,
                 events, analyzedPages, idx, progressK, aiCalls, unlinkCount,
                 extraction, exitPath, classified, aiThrew>>

Next ==
  \/ Start
  \/ ExtractResolve
  \/ ExtractReject
  \/ ExtractTimeout
  \/ LateExtraction
  \/ Cancelled
  \/ SkipPage
  \/ StartAnalyzePage
  \/ AnalyzeReturn
  \/ AnalyzeThrow
  \/ StartSummary
  \/ SummaryReturn
  \/ SummaryThrow
  \/ ClientClose

Spec == Init /\ [][Next]_vars

\* ------------------------------------- processPDF: requests that run to an end

MaxLivePages == 2

\* a reference list, a study page and a page of mixed content
LivePages ==
  { << MkLine("RefHeader"), MkLine("Entry"), MkLine("Entry"), MkLine("Entry") >>,
    << MkLine("Prose") >>,
    << MkLine("ImpHeader"), MkLine("Prose"), MkLine("RefHeader"), MkLine("Entry") >> }

LiveDocs == SeqsUpTo(LivePages, MaxLivePages) \cup {OversizedDoc}

InitLive == Init /\ doc \in LiveDocs

\* The steps of processPDF itself.  The handler runs each synchronous stretch
\* to its next await; the extraction is raced against the timer of
\* withTimeout, and analyzePage and generateSummary return or throw.
HandlerStep ==
  \/ Start
  \/ ExtractResolve
  \/ ExtractReject
  \/ ExtractTimeout
  \/ Cancelled
  \/ SkipPage
  \/ StartAnalyzePage
  \/ AnalyzeReturn
  \/ AnalyzeThrow
  \/ StartSummary
  \/ SummaryReturn
  \/ SummaryThrow

SpecLive == InitLive /\ [][Next]_vars /\ WF_vars(HandlerStep)

\* ------------------------------------------------ properties of processPDF

EventIndices(t) == {i \in 1..Len(events) : events[i].type = t}

\* the requests that end in a request-level failure
RequestFailures ==
  {"noFile", "badMagic", "extractFail", "timeout", "noPages", "pageCount",
   "summaryFail"}

\* the page loop ran to its end: the analyzed-page list is final
LoopFinished == pc = "summarizing" \/ exitPath \in {"complete", "summaryFail"}

\* the entry a page gets when aiService.analyzePage does not throw
NormalEntry(page) ==
  LET entry(v) == IF NeedsAI(v) THEN AnalysisEntry(v) ELSE SkipEntry(v)
  IN Apply(entry, PageView(page))

PageNeedsAI(page) == Apply(NeedsAI, PageView(page))

AnalyzePageCalls(n) ==
  {i \in 1..Len(aiCalls) : aiCalls[i].fn = "analyzePage" /\ aiCalls[i].pageNumber = n}

\* C1: when the page loop has run to its end (the client stayed connected
\* through it), the analyzed-page list has one entry per page of the document,
\* in page order; the pages for which analyzePage threw hold the error
\* placeholder and every other page holds the entry it gets without a failure.
C1_PageFailureIsolated ==
  LoopFinished =>
    /\ Len(analyzedPages) = Len(pages)
    /\ \A i \in 1..Len(analyzedPages) :
         /\ analyzedPages[i].pageNumber = i
         /\ analyzedPages[i] = IF i \in aiThrew THEN ErrorEntry(pages[i])
                               ELSE NormalEntry(pages[i])

\* analyzePage threw for a page that is not the last one, a later page was
\* analyzed, and the request completed with the client connected
C1_Witness ==
  /\ exitPath = "complete" /\ ~clientClosed
  /\ \E k \in aiThrew :
       /\ k < Len(pages)
       /\ analyzedPages[k] = ErrorEntry(pages[k])
       /\ analyzedPages[k + 1].analysis = "analysis"

\* C2: deletion of the uploaded file is started exactly once by the time
\* processPDF has ended, whatever the exit path, never before that and never
\* twice; a request without a file starts none.
C2_UnlinkExactlyOnce ==
  /\ pc # "done" => unlinkCount = 0
  /\ pc = "done" => unlinkCount = (IF hasFile THEN 1 ELSE 0)

\* a request that had a page-level error and then lost its client
C2_Witness ==
  /\ pc = "done" /\ hasFile /\ exitPath = "cancelled" /\ aiThrew # {}
  /\ unlinkCount = 1

\* C3: once the client has disconnected no step writes an event or starts an
\* AIBackend call; a call in flight at the disconnect is left to finish, its
\* page is recorded, and the request ends before the next page.
C3_NothingAfterDisconnect ==
  /\ [][clientClosed => (events' = events /\ aiCalls' = aiCalls)]_vars
  /\ [](closedAt.pc = "analyzing" /\ pc \in {"loop", "done"} =>
          /\ idx = closedAt.idx + 1
          /\ Len(analyzedPages) = closedAt.idx + 1
          /\ pc = "done" => exitPath = "cancelled")

\* the client left during the analysis of a page that is followed by a page
\* the AI would have been called for
C3_Witness ==
  /\ pc = "done" /\ closedAt.pc = "analyzing"
  /\ Len(analyzedPages) = closedAt.idx + 1
  /\ \E j \in (closedAt.idx + 2)..Len(pages) : PageNeedsAI(pages[j])

\* C7: a page that analyzePageContent classified PURE_REFERENCES is recorded
\* with the fixed reference-page response, and no analyzePage call is made
\* for it.
C7_PureReferencesNeverSentToAI ==
  \A i \in 1..Len(classified) :
    classified[i] = PURE_REFERENCES =>
      /\ AnalyzePageCalls(i) = {}
      /\ i <= Len(analyzedPages)
      /\ analyzedPages[i].analysis = "reference page response"
      /\ analyzedPages[i].flag = "isReferencePage"
      /\ analyzedPages[i].contentClassification = PURE_REFERENCES

\* a completed request with a reference page and a page analyzed by the AI
C7_Witness ==
  /\ exitPath = "complete"
  /\ \E i \in 1..Len(classified) :
       /\ classified[i] = PURE_REFERENCES
       /\ analyzedPages[i].analysis = "reference page response"
  /\ \E j \in 1..Len(pages) : AnalyzePageCalls(j) # {}

\* C8: no text handed to the AIBackend, by analyzePage or by generateSummary,
\* still holds what sanitizeTextForPrompt filters out.
C8_EveryTextSanitized ==
  \A i \in 1..Len(aiCalls) :
    \A j \in 1..Len(aiCalls[i].texts) :
      /\ ~HoldsInjection(aiCalls[i].texts[j])
      /\ sanitizeTextForPrompt(aiCalls[i].texts[j]) = aiCalls[i].texts[j]

\* C9 as stated: every request-level failure ends with exactly one error event
\* and no complete event, and a page-level failure sends no error event.
C9_OneErrorPerRequestFailure ==
  /\ exitPath \in RequestFailures =>
       /\ Cardinality(EventIndices("error")) = 1
       /\ EventIndices("complete") = {}
  /\ exitPath \notin RequestFailures => EventIndices("error") = {}

\* C9: a request-level failure reported while the client is connected ends
\* the stream with exactly one error event, the last event written, and no
\* complete event; with the client gone the failure writes nothing; and a
\* request without a request-level failure never holds an error event, however
\* many of its pages failed.
C9_OneErrorWhileConnected ==
  /\ (exitPath \in RequestFailures /\ ~clientClosed) =>
       /\ Cardinality(EventIndices("error")) = 1
       /\ EventIndices("complete") = {}
       /\ EventIndices("error") = {Len(events)}
  /\ (exitPath \in RequestFailures /\ clientClosed) =>
       EventIndices("error") = {} /\ EventIndices("complete") = {}
  /\ exitPath \notin RequestFailures => EventIndices("error") = {}

\* a summary failure after a page failure, both with the client connected
C9_Witness ==
  /\ exitPath = "summaryFail" /\ ~clientClosed /\ aiThrew # {}
  /\ Cardinality(EventIndices("error")) = 1

\* C10: the percent values of the progress events are integers in 0 .. 100
\* and never decrease along the stream.
C10_ProgressMonotone ==
  /\ \A i \in EventIndices("progress") : events[i].percent \in 0..FINAL_PERCENT
  /\ \A i, j \in EventIndices("progress") :
       i < j => events[i].percent <= events[j].percent

\* a completed request that reported progress for three pages and the summary
C10_Witness ==
  /\ exitPath = "complete"
  /\ Cardinality(EventIndices("progress")) >= 4
  /\ \E i, j \in EventIndices("progress") :
       i < j /\ events[i].percent < events[j].percent
                /\ events[j].percent < FINAL_PERCENT

\* C12: an upload whose first five bytes are not the signature %PDF- ends with
\* an error event, and the extraction is never started for it.
C12_BadSignatureNeverExtracted ==
  (hasFile /\ fileHead # <<37, 80, 68, 70, 45>>) =>
    /\ extraction = "idle"
    /\ pc # "extracting"
    /\ pc = "done" =>
         /\ exitPath = "badMagic"
         /\ EventIndices("error") = {Len(events)}

\* a file that differs from the signature in its fifth byte only
C12_Witness ==
  /\ pc = "done" /\ hasFile /\ fileHead = <<37, 80, 68, 70, 46>>
  /\ exitPath = "badMagic" /\ events[Len(events)].type = "error"
  /\ extraction = "idle"

\* the extractor resolved, in time
Resolved == extraction = "settled" /\ exitPath \notin {"extractFail", "timeout"}

\* the document's page count is zero, negative, not a number or over the ceiling
BadPageCount ==
  numpages.nan \/ numpages.val < 1 \/ numpages.val > MAX_PAGES

\* the request was refused for its page count before any page was looked at
RejectedForPageCount ==
  /\ pc = "done" /\ exitPath \in {"noPages", "pageCount"}
  /\ classified = << >> /\ aiCalls = << >> /\ analyzedPages = << >>

\* the request went on to the page loop with every page of the document
AcceptedPageCount ==
  /\ exitPath \notin {"noPages", "pageCount"}
  /\ Len(pages) = numpages.val

\* C13 as stated: a document with a page count of zero, a negative count, a
\* count that is not a number or a count over the ceiling is refused with an
\* error event before any page is classified or sent to the AI, and every
\* count from 1 to the ceiling is accepted.
C13_BadCountRejectedWithError ==
  Resolved =>
    IF BadPageCount
    THEN RejectedForPageCount /\ EventIndices("error") = {Len(events)}
    ELSE AcceptedPageCount

\* C13, amended: the refusal writes its error event when the client is still
\* connected; when the client left during the extraction the request is
\* refused all the same and no event is written.
C13_BadCountRejected ==
  Resolved =>
    IF BadPageCount
    THEN /\ RejectedForPageCount
         /\ EventIndices("error") = (IF clientClosed THEN {} ELSE {Len(events)})
    ELSE AcceptedPageCount

\* a document one page over the ceiling, refused with the client connected
C13_Witness ==
  /\ Resolved /\ numpages.val = MAX_PAGES + 1 /\ ~clientClosed
  /\ exitPath = "pageCount" /\ events[Len(events)].type = "error"
  /\ classified = << >>

\* C14: when the deadline fires on a pending extraction the request ends on
\* the timeout path, never on the extraction-failure path, and what it
\* reports to a connected client is the timeout error; the extraction goes
\* on, and when it settles later nothing is written, no page is processed
\* and no second cleanup is started.
C14_TimeoutEndsRequest ==
  /\ [][(extraction = "pending" /\ extraction' = "abandoned") =>
          (pc' = "done" /\ exitPath' = "timeout")]_vars
  /\ [](exitPath = "timeout" =>
          /\ pc = "done" /\ extraction \in {"abandoned", "settled"}
          /\ pages = << >> /\ classified = << >> /\ aiCalls = << >>
          /\ unlinkCount = 1
          /\ \A i \in 1..Len(events) : events[i].msg # "extraction failed"
          /\ ~clientClosed =>
               /\ EventIndices("error") = {Len(events)}
               /\ events[Len(events)].msg = "processing time exhausted")
  /\ [][extraction = "abandoned" =>
          /\ events' = events /\ pages' = pages /\ pc' = pc
          /\ analyzedPages' = analyzedPages /\ aiCalls' = aiCalls
          /\ unlinkCount' = unlinkCount /\ exitPath' = exitPath]_vars

\* the abandoned extraction settled after the request had ended on the
\* timeout path with the client connected
C14_Witness ==
  /\ exitPath = "timeout" /\ extraction = "settled" /\ ~clientClosed
  /\ events[Len(events)].msg = "processing time exhausted"
  /\ unlinkCount = 1

\* C15: no exception message reaches the client, in a log event, in an error
\* event or inside the complete result, with a file path still in it: every
\* one has passed the path redaction first.
C15_NoUnredactedMessage ==
  \A i \in 1..Len(events) : ~HoldsPath(events[i].exc)

\* the AIBackend calls that have been started and have not yet come back: an
\* analyzePage call is back when its page has its entry, the generateSummary
\* call when the request has ended
CallsInFlight ==
  {i \in 1..Len(aiCalls) :
     IF aiCalls[i].fn = "analyzePage"
     THEN Len(analyzedPages) < aiCalls[i].pageNumber
     ELSE pc # "done"}

\* C21: within one request the pages are handled in ascending page-number
\* order, at most one AIBackend call is in flight at any time, and
\* generateSummary is called only after every page has its entry.
C21_SequentialInPageOrder ==
  /\ [](/\ Cardinality(CallsInFlight) <= 1
        /\ \A i \in 1..Len(analyzedPages) : analyzedPages[i].pageNumber = i
        /\ \A i, j \in 1..Len(aiCalls) :
             (i < j /\ aiCalls[j].fn = "analyzePage") =>
               (aiCalls[i].fn = "analyzePage"
                /\ aiCalls[i].pageNumber < aiCalls[j].pageNumber))
  /\ [][aiCalls' # aiCalls =>
          /\ CallsInFlight = {}
          /\ Len(aiCalls') = Len(aiCalls) + 1
          /\ LET call == aiCalls'[Len(aiCalls')]
             IN IF call.fn = "analyzePage"
                THEN call.pageNumber = Len(analyzedPages) + 1
                ELSE Len(analyzedPages) = Len(pages)]_vars

\* a request of three pages in its summary call, after two analyzePage calls
\* and one page recorded without a call
C21_Witness ==
  /\ pc = "summarizing" /\ Len(pages) = 3
  /\ Cardinality({i \in 1..Len(aiCalls) : aiCalls[i].fn = "analyzePage"}) = 2
  /\ CallsInFlight = {Len(aiCalls)}

\* the places of the terminal events among the events written
TerminalEvents == EventIndices("complete") \cup EventIndices("error")

\* the request has written its one terminal event, as the last event, and
\* has ended the stream
EndedWithOneTerminalEvent ==
  /\ pc = "done" /\ writableEnded
  /\ Cardinality(TerminalEvents) = 1
  /\ TerminalEvents = {Len(events)}

\* C27: if the client stays connected and every collaborator call returns or
\* throws, the request eventually writes exactly one terminal event, complete
\* or error and never both, writes nothing after it, and ends the stream.
C27_EndsWithOneTerminalEvent ==
  /\ ([]~clientClosed) => <>EndedWithOneTerminalEvent
  /\ [](TerminalEvents # {} => EndedWithOneTerminalEvent)
  /\ [][TerminalEvents # {} => events' = events]_vars

\* generateSummary threw after a page-level failure, the client connected:
\* the error event is the only terminal event and the stream is ended
C27_Witness ==
  /\ ~clientClosed /\ EndedWithOneTerminalEvent
  /\ exitPath = "summaryFail" /\ aiThrew # {}
  /\ events[Len(events)].type = "error"

\* the classified text as a page of the loop in processPDF
ClassifiedPageView == PageView([pageNumber |-> 1, text |-> pageText])

ExpectedHandling(page) ==
  LET of(trimmed) ==
        LET on(ca) ==
              [call |-> /\ TextLen(trimmed) > 0
                        /\ ~Feat(trimmed[1]).marker
                        /\ \/ /\ ca.classification = MIXED_CONTENT
                              /\ TextLen(ca.extractableText) >= 100
                           \/ /\ ca.classification = SUBSTANTIVE_CONTENT
                              /\ hasSubstantiveContent(trimmed).hasContent,
               mixed |-> ca.classification = MIXED_CONTENT,
               text |-> sanitizeTextForPrompt(ca.extractableText)]
        IN Apply(on, analyzePageContent(trimmed))
  IN Apply(of, Trim(page.text))

\* the analyses of the entries recorded without an AI call
PlaceholderAnalyses ==
  {"omitted: no extractable text", "reference page response",
   "omitted: extracted content too short", "omitted: no substantive content"}

\* C22: analyzePage is called for a page if and only if the page is not
\* empty, not a placeholder, and either MIXED_CONTENT with at least 100
\* characters of extractableText (the call then gets the sanitized
\* extractableText and nothing else) or SUBSTANTIVE_CONTENT that passes
\* hasSubstantiveContent; every other page gets a placeholder entry and no
\* call.
C22_AnalyzePageIffWorthIt ==
  /\ [][classified' # classified =>
          \E expected \in {ExpectedHandling(pages[Len(classified) + 1])} :
            IF expected.call
            THEN /\ Len(aiCalls') = Len(aiCalls) + 1
                 /\ aiCalls'[Len(aiCalls')].fn = "analyzePage"
                 /\ aiCalls'[Len(aiCalls')].pageNumber = Len(classified) + 1
                 /\ expected.mixed => aiCalls'[Len(aiCalls')].texts = <<expected.text>>
                 /\ analyzedPages' = analyzedPages
            ELSE /\ aiCalls' = aiCalls
                 /\ Len(analyzedPages') = Len(analyzedPages) + 1
                 /\ analyzedPages'[Len(analyzedPages')].pageNumber = Len(classified) + 1
                 /\ analyzedPages'[Len(analyzedPages')].analysis \in PlaceholderAnalyses]_vars
  /\ [][(aiCalls' # aiCalls /\ aiCalls'[Len(aiCalls')].fn = "analyzePage") =>
          classified' # classified]_vars
  /\ [](Len(classified) \in {Len(analyzedPages), Len(analyzedPages) + 1})

\* a completed request in which a MIXED_CONTENT page was sent to the AI and
\* a page that fails the hasSubstantiveContent gate was recorded without a call
C22_Witness ==
  /\ exitPath = "complete"
  /\ \E i \in 1..Len(classified) :
       classified[i] = MIXED_CONTENT /\ AnalyzePageCalls(i) # {}
  /\ \E j \in 1..Len(analyzedPages) :
       analyzedPages[j].analysis = "omitted: no substantive content"

\* C23: every page of a document of N pages, whatever its classification or
\* outcome, advances the progress by 50/N: the progress has advanced once per
\* recorded page, and it stands at 50 when the last page has been processed.
C23_EveryPageAdvancesProgress ==
  /\ progressK = Len(analyzedPages)
  /\ LoopFinished => Percent(progressK, Len(pages)) = 50

\* ------------------------------------------------ splitIntoPages on its own

\* the texts and page counts splitIntoPages is checked on
SplitTexts ==
  SeqsUpTo({MkLine("Blank"), MkLine("Prose"), MkLine("Filler")}, MaxLines) \ {<< >>}

SplitCounts == {NaN} \cup {Num(n) : n \in -1..MaxSplitPages}

InitSplit ==
  /\ ClassifierOff /\ OrchestratorOff
  /\ fpc = "input"
  /\ input \in [fullText : SplitTexts, numPages : SplitCounts]
  /\ output = << >>
  /\ store = << >> /\ now = 0 /\ requests = << >> /\ responses = << >>

Split ==
  /\ fpc = "input"
  /\ output' = splitIntoPages(input.fullText, input.numPages)
  /\ fpc' = "returned"
  /\ UNCHANGED <<cvars, ovars, input, store, now, requests, responses>>

NextSplit == Split

SpecSplit == InitSplit /\ [][NextSplit]_vars

\* C11: for a page count of at least 1 and any text, the empty string
\* included, splitIntoPages returns exactly that many entries, numbered
\* 1, 2, ... in order.
C11_SplitReturnsPageCountEntries ==
  (fpc = "returned" /\ ~input.numPages.nan /\ input.numPages.val >= 1) =>
    /\ Len(output) = input.numPages.val
    /\ \A i \in 1..Len(output) : output[i].pageNumber = i

\* a text with fewer lines than pages: the last pages get no line at all
C11_Witness ==
  /\ fpc = "returned"
  /\ ~input.numPages.nan
  /\ input.numPages.val > Len(input.fullText)
  /\ TextLen(Trim(input.fullText)) > 0
  /\ output[Len(output)].text = NO_TEXT_PAGE
  /\ output[1].text # NO_TEXT_PAGE

\* ------------------------------- sanitizeTextForPrompt, character by character

\* A string is a sequence of pieces: words, and the punctuation the patterns
\* of sanitizeTextForPrompt look at. Two neighbouring word pieces read as one
\* longer word ("file" "system" is "filesystem").
MaxSegments == 3

WordPieces ==
  {"Ignore", "ignore", "all", "previous", "instructions", "disregard", "context",
   "system", "assistant", "user", "file", "and", "reveal", "secrets", "im_start"}

SpacePieces == {" ", "\n"}

\* "BACKTICK" is the character U+0060 and "QUOTE" the character U+0027

\* the /i flag
Lower(piece) == IF piece = "Ignore" THEN "ignore" ELSE piece

RolePieces == {"system", "assistant", "user"}

\* the index of the first piece at or after i that is not white space: \s*
RECURSIVE SkipSpaces(_, _)
SkipSpaces(t, i) ==
  IF i <= Len(t) /\ t[i] \in SpacePieces THEN SkipSpaces(t, i + 1) ELSE i

\* .replace(/```/g, '\'\'\'')
RECURSIVE replaceFences(_)
replaceFences(t) ==
  IF Len(t) = 0 THEN << >>
  ELSE IF Len(t) >= 3 /\ t[1] = "BACKTICK" /\ t[2] = "BACKTICK" /\ t[3] = "BACKTICK"
  THEN <<"QUOTE", "QUOTE", "QUOTE">> \o replaceFences(SubSeq(t, 4, Len(t)))
  ELSE <<t[1]>> \o replaceFences(Tail(t))

\* /\b(system|assistant|user):\s*/i matches at piece i: the index after the
\* match, or 0
RoleMarkerEnd(t, i) ==
  IF /\ Lower(t[i]) \in RolePieces
     /\ (i = 1 \/ t[i - 1] \notin WordPieces)
     /\ i + 1 <= Len(t) /\ t[i + 1] = ":"
  THEN SkipSpaces(t, i + 2) ELSE 0

\* .replace(/\b(system|assistant|user):\s*/gi, '')
RECURSIVE removeRoleMarkersFrom(_, _)
removeRoleMarkersFrom(t, i) ==
  IF i > Len(t) THEN << >>
  ELSE IF RoleMarkerEnd(t, i) > 0 THEN removeRoleMarkersFrom(t, RoleMarkerEnd(t, i))
  ELSE <<t[i]>> \o removeRoleMarkersFrom(t, i + 1)

\* <word> \s+ (<a>|<b>) \s+ <last> matches at piece i: the index after the
\* match, or 0
OverrideEnd(t, i, word, middle, last) ==
  IF Lower(t[i]) = word /\ i + 1 <= Len(t) /\ t[i + 1] \in SpacePieces
  THEN LET j == SkipSpaces(t, i + 1)
       IN IF j + 1 <= Len(t) /\ t[j] \in middle /\ t[j + 1] \in SpacePieces
          THEN LET k == SkipSpaces(t, j + 1)
               IN IF k <= Len(t) /\ t[k] \in last THEN k + 1 ELSE 0
          ELSE 0
  ELSE 0

\* /ignore\s+(previous|all)\s+instructions?/i
IgnoreEnd(t, i) == OverrideEnd(t, i, "ignore", {"previous", "all"}, {"instructions"})

\* /disregard\s+(previous|all)\s+(instructions?|context)/i
DisregardEnd(t, i) ==
  OverrideEnd(t, i, "disregard", {"previous", "all"}, {"instructions", "context"})

\* .replace(/ignore\s+(previous|all)\s+instructions?/gi, '[filtered]')
RECURSIVE replaceIgnoreFrom(_, _)
replaceIgnoreFrom(t, i) ==
  IF i > Len(t) THEN << >>
  ELSE IF IgnoreEnd(t, i) > 0
  THEN <<"[filtered]">> \o replaceIgnoreFrom(t, IgnoreEnd(t, i))
  ELSE <<t[i]>> \o replaceIgnoreFrom(t, i + 1)

\* .replace(/disregard\s+(previous|all)\s+(instructions?|context)/gi, '[filtered]')
RECURSIVE replaceDisregardFrom(_, _)
replaceDisregardFrom(t, i) ==
  IF i > Len(t) THEN << >>
  ELSE IF DisregardEnd(t, i) > 0
  THEN <<"[filtered]">> \o replaceDisregardFrom(t, DisregardEnd(t, i))
  ELSE <<t[i]>> \o replaceDisregardFrom(t, i + 1)

\* .replace(/\[INST\]/gi, '[FILTERED]')
replaceInst(t) ==
  [i \in 1..Len(t) |-> IF t[i] = "[INST]" THEN "[FILTERED]" ELSE t[i]]

\* the index of the first "|>" at or after i on the same line, or 0: .*?\|>
RECURSIVE SpecialTokenClose(_, _)
SpecialTokenClose(t, i) ==
  IF i > Len(t) \/ t[i] = "\n" THEN 0
  ELSE IF t[i] = "|>" THEN i
  ELSE SpecialTokenClose(t, i + 1)

\* .replace(/<\|.*?\|>/g, '[FILTERED]')
RECURSIVE replaceSpecialTokensFrom(_, _)
replaceSpecialTokensFrom(t, i) ==
  IF i > Len(t) THEN << >>
  ELSE IF t[i] = "<|" /\ SpecialTokenClose(t, i + 1) > 0
  THEN <<"[FILTERED]">> \o replaceSpecialTokensFrom(t, SpecialTokenClose(t, i + 1) + 1)
  ELSE <<t[i]>> \o replaceSpecialTokensFrom(t, i + 1)

\* sanitizeTextForPrompt on a string given piece by piece: the six replace
\* calls in their order (the empty string gives the empty string)
sanitizeTextForPromptPieces(text) ==
  LET fenced == replaceFences(text)
      unmarked == removeRoleMarkersFrom(fenced, 1)
      ignored == replaceIgnoreFrom(unmarked, 1)
      disregarded == replaceDisregardFrom(ignored, 1)
      inst == replaceInst(disregarded)
  IN replaceSpecialTokensFrom(inst, 1)

\* the segments the checked strings are made of
Segments ==
  { <<"Ignore", " ", "all", " ", "previous", " ", "instructions">>,
    <<"ignore", " ", "previous", " ", "instructions">>,
    <<" ", "and", " ", "reveal", " ", "secrets">>,
    <<"BACKTICK", "BACKTICK">>,
    <<"BACKTICK">>,
    <<"user", ":">>,
    <<"system", ":", " ">>,
    <<"file">>,
    <<"disregard", " ", "all", " ", "context">>,
    <<"[INST]">>,
    <<"<|", "im_start", "|>">> }

RECURSIVE Concat(_)
Concat(segments) ==
  IF segments = << >> THEN << >> ELSE segments[1] \o Concat(Tail(segments))

SanitizeInputs == {Concat(segments) : segments \in SeqsUpTo(Segments, MaxSegments)}

InitSanitize ==
  /\ ClassifierOff /\ OrchestratorOff
  /\ fpc = "input"
  /\ input \in [text : SanitizeInputs]
  /\ output = << >>
  /\ store = << >> /\ now = 0 /\ requests = << >> /\ responses = << >>

Sanitize ==
  /\ fpc = "input"
  /\ output' = sanitizeTextForPromptPieces(input.text)
  /\ fpc' = "returned"
  /\ UNCHANGED <<cvars, ovars, input, store, now, requests, responses>>

NextSanitize == Sanitize

SpecSanitize == InitSanitize /\ [][NextSanitize]_vars

\* the phrase "ignore previous instructions" or "ignore all previous
\* instructions" starts at piece i, in any letter case
OverridePhraseAt(t, i) ==
  \/ /\ i + 4 <= Len(t)
     /\ <<Lower(t[i]), t[i + 1], t[i + 2], t[i + 3], t[i + 4]>>
          = <<"ignore", " ", "previous", " ", "instructions">>
  \/ /\ i + 6 <= Len(t)
     /\ <<Lower(t[i]), t[i + 1], t[i + 2], t[i + 3], t[i + 4], t[i + 5], t[i + 6]>>
          = <<"ignore", " ", "all", " ", "previous", " ", "instructions">>

HoldsOverridePhrase(t) == \E i \in 1..Len(t) : OverridePhraseAt(t, i)

\* C16: for every input that contains "ignore previous instructions" or
\* "ignore all previous instructions", the output of sanitizeTextForPrompt
\* has [filtered] where the phrase was: the marker is there and the phrase
\* is gone.
C16_OverridePhraseFiltered ==
  (fpc = "returned" /\ HoldsOverridePhrase(input.text)) =>
    /\ \E i \in 1..Len(output) : output[i] = "[filtered]"
    /\ ~HoldsOverridePhrase(output)

\* three backticks in a row
HoldsFence(t) ==
  \E i \in 1..Len(t) : i + 2 <= Len(t) /\ t[i] = "BACKTICK" /\ t[i + 1] = "BACKTICK" /\ t[i + 2] = "BACKTICK"

\* system:, assistant: or user: as a word of its own
HoldsRoleMarker(t) == \E i \in 1..Len(t) : RoleMarkerEnd(t, i) > 0

\* C17: for every input, the output of sanitizeTextForPrompt holds no
\* triple-backtick fence and no role marker (system:, assistant:, user:).
C17_NoFenceNoRoleMarker ==
  fpc = "returned" => (~HoldsFence(output) /\ ~HoldsRoleMarker(output))

\* --------------------------------------- pdfService: detectStructure (IMRyD)

MaxDocItems == 4

\* lines.slice(0, 20)
HEADER_LINES == 20

\* detectedImrydCount >= 2
MIN_IMRYD_SECTIONS == 2

\* A document is given as a sequence of items: a line of one of these kinds,
\* a block of HEADER_LINES lines of running text, or the end of a page.
\* "Conclusions" is a heading the discussion pattern matches, "Sentence" a
\* line that holds the word Methods among others.
StructureItems ==
  {"Introduction", "Methods", "Results", "Conclusions", "Abstract", "PartI",
   "Sentence", "TextBlock", "PageBreak"}

\* the key of IMRYD_PATTERNS whose pattern matches the trimmed line
SectionOf(line) ==
  CASE line = "Abstract" -> "abstract"
    [] line = "Introduction" -> "introduction"
    [] line = "Methods" -> "methods"
    [] line = "Results" -> "results"
    [] line = "Conclusions" -> "discussion"
    [] OTHER -> "none"

IMRYD_SECTIONS ==
  {"abstract", "introduction", "methods", "results", "discussion", "references"}

\* const imrydSections = ['introduction', 'methods', 'results', 'discussion']
imrydSections == {"introduction", "methods", "results", "discussion"}

\* the lines an item stands for
ItemLines(item) ==
  IF item = "TextBlock" THEN [i \in 1..HEADER_LINES |-> "Sentence"] ELSE <<item>>

\* the pages of a document: the lines of each page, in page order
RECURSIVE PagesOf(_, _)
PagesOf(items, page) ==
  IF items = << >> THEN <<page>>
  ELSE IF Head(items) = "PageBreak" THEN <<page>> \o PagesOf(Tail(items), << >>)
  ELSE PagesOf(Tail(items), page \o ItemLines(Head(items)))

\* a window that takes every line of the page
headerLinesWholePage(lines) == lines

\* lines.slice(0, 20)
headerLines(lines) == SubSeq(lines, 1, Min(Len(lines), HEADER_LINES))

\* the first page with a header line the section's pattern matches, or 0:
\* structure.imryd[sectionName] is set on the first match only
RECURSIVE FirstPageWith(_, _, _)
FirstPageWith(docPages, section, n) ==
  IF n > Len(docPages) THEN 0
  ELSE IF \E i \in 1..Len(headerLines(docPages[n])) :
            SectionOf(headerLines(docPages[n])[i]) = section
  THEN n
  ELSE FirstPageWith(docPages, section, n + 1)

\* the parts detected, by start page, or the default part
PartsOf(docPages, isIMRyDFormat) ==
  LET found == SelectSeq([n \in 1..Len(docPages) |->
                            [title |-> "Part I", startPage |-> n,
                             hits |-> Cardinality({i \in 1..Len(headerLines(docPages[n])) :
                                                     headerLines(docPages[n])[i] = "PartI"})]],
                         LAMBDA part : part.hits > 0)
  IN IF Len(found) = 0
     THEN <<[title |-> IF isIMRyDFormat THEN "Articulo Medico" ELSE "Documento Completo",
             startPage |-> 1, hits |-> 0]>>
     ELSE found

\* detectStructure(pages): the IMRyD sections, the flag and the parts
detectStructure(docPages) ==
  LET imryd == [section \in IMRYD_SECTIONS |-> FirstPageWith(docPages, section, 1)]
      detectedImrydCount == Cardinality({section \in imrydSections : imryd[section] # 0})
      isIMRyDFormat == detectedImrydCount >= MIN_IMRYD_SECTIONS
  IN [imryd |-> imryd, isIMRyDFormat |-> isIMRyDFormat,
      parts |-> PartsOf(docPages, isIMRyDFormat)]

StructureDocs == SeqsUpTo(StructureItems, MaxDocItems)

InitStructure ==
  /\ ClassifierOff /\ OrchestratorOff
  /\ fpc = "input"
  /\ input \in [items : StructureDocs]
  /\ output = << >>
  /\ store = << >> /\ now = 0 /\ requests = << >> /\ responses = << >>

DetectStructure ==
  /\ fpc = "input"
  /\ output' = detectStructure(PagesOf(input.items, << >>))
  /\ fpc' = "returned"
  /\ UNCHANGED <<cvars, ovars, input, store, now, requests, responses>>

NextStructure == DetectStructure

SpecStructure == InitStructure /\ [][NextStructure]_vars

\* the section has a heading among the first HEADER_LINES lines of some page
\* of the document
SectionFound(items, section) ==
  \E n \in 1..Len(PagesOf(items, << >>)) :
    \E i \in 1..Len(PagesOf(items, << >>)[n]) :
      i <= HEADER_LINES /\ SectionOf(PagesOf(items, << >>)[n][i]) = section

SectionsFound(items) ==
  {section \in {"introduction", "methods", "results", "discussion"} :
     SectionFound(items, section)}

MaxScanItems == 4

\* page.text.split('\n').slice(0, 10)
SCAN_LINES == 10

\* A document is a sequence of these items; PagesOf gives its pages.
\* "PartI" and "PartII" are lines partPattern matches, "Chapter1" and
\* "Chapter2" lines chapterPattern matches.
ScanItems ==
  {"PartI", "PartII", "Chapter1", "Chapter2", "Sentence", "TextBlock", "PageBreak"}

\* line.match(partPattern)
partMatch(line) == line \in {"PartI", "PartII"}

\* line.match(chapterPattern)
chapterMatch(line) == line \in {"Chapter1", "Chapter2"}

\* lines.slice(0, 10)
scannedLines(lines) == SubSeq(lines, 1, Min(Len(lines), SCAN_LINES))

\* The body of the inner loop for one line.  currentPart is the part pushed
\* last, or null while parts is empty; `at` (page, line) tells two headers
\* with the same text apart and is not a field of the source's objects.
scanLine(structure, line, pageNumber, i) ==
  LET afterPart ==
        IF partMatch(line)
        THEN [structure EXCEPT !.parts =
                Append(@, [header |-> line, startPage |-> pageNumber,
                           chapters |-> << >>, at |-> <<pageNumber, i>>])]
        ELSE structure
      currentChapter ==
        [header |-> line, startPage |-> pageNumber, at |-> <<pageNumber, i>>]
  IN \* if (chapterMatch && currentPart)
     IF chapterMatch(line) /\ Len(afterPart.parts) > 0
     THEN [afterPart EXCEPT
             !.parts[Len(afterPart.parts)].chapters = Append(@, currentChapter),
             !.chapters = Append(@, currentChapter)]
     ELSE afterPart

\* for (const line of lines)
RECURSIVE scanPage(_, _, _, _)
scanPage(structure, lines, pageNumber, i) ==
  IF i > Len(lines) THEN structure
  ELSE scanPage(scanLine(structure, lines[i], pageNumber, i), lines, pageNumber, i + 1)

\* for (const page of pages)
RECURSIVE scanPages(_, _, _)
scanPages(structure, docPages, n) ==
  IF n > Len(docPages) THEN structure
  ELSE scanPages(scanPage(structure, scannedLines(docPages[n]), n, 1), docPages, n + 1)

\* the part pushed when no part was detected
DefaultPart ==
  [header |-> "Documento Completo", startPage |-> 1, chapters |-> << >>,
   at |-> <<0, 0>>]

\* detectStructure(pages): the parts with their chapters, and the chapters
detectPartsAndChapters(docPages) ==
  LET withDefault(structure) ==
        IF Len(structure.parts) = 0
        THEN [structure EXCEPT !.parts = <<DefaultPart>>]
        ELSE structure
  IN Apply(withDefault, scanPages([parts |-> << >>, chapters |-> << >>], docPages, 1))

ScanDocs == SeqsUpTo(ScanItems, MaxScanItems)

InitScan ==
  /\ ClassifierOff /\ OrchestratorOff
  /\ fpc = "input"
  /\ input \in [items : ScanDocs]
  /\ output = << >>
  /\ store = << >> /\ now = 0 /\ requests = << >> /\ responses = << >>

DetectPartsAndChapters ==
  /\ fpc = "input"
  /\ output' = detectPartsAndChapters(PagesOf(input.items, << >>))
  /\ fpc' = "returned"
  /\ UNCHANGED <<cvars, ovars, input, store, now, requests, responses>>

NextScan == DetectPartsAndChapters

SpecScan == InitScan /\ [][NextScan]_vars

\* the places (page, line) of the scanned lines that match
HeadersIn(docPages, matches(_)) ==
  {at \in (1..Len(docPages)) \X (1..SCAN_LINES) :
     at[2] <= Len(docPages[at[1]]) /\ matches(docPages[at[1]][at[2]])}

\* place a comes before place b in page order
Before(a, b) == a[1] < b[1] \/ (a[1] = b[1] /\ a[2] < b[2])

\* the parts of the structure that hold a chapter recorded for the header at h
PartsHolding(structure, h) ==
  {p \in 1..Len(structure.parts) :
     \E c \in 1..Len(structure.parts[p].chapters) :
       structure.parts[p].chapters[c].at = h}

\* C28 (as claimed): every Chapter header matched in the scanned lines of a
\* page is recorded in structure.chapters and attached to exactly one Part,
\* the Part whose header was seen most recently before it in page order.
C28_EveryChapterRecordedUnderLastPart ==
  fpc = "returned" =>
    LET docPages == PagesOf(input.items, << >>)
        partHeaders == HeadersIn(docPages, partMatch)
    IN \A h \in HeadersIn(docPages, chapterMatch) :
         /\ \E c \in 1..Len(output.chapters) : output.chapters[c].at = h
         /\ Cardinality(PartsHolding(output, h)) = 1
         /\ \A p \in PartsHolding(output, h) :
              /\ output.parts[p].at \in partHeaders
              /\ Before(output.parts[p].at, h)
              /\ \A q \in partHeaders :
                   Before(q, h) => ~Before(output.parts[p].at, q)

\* ------------------------------ structureService.js: groupAnalysisByStructure

\* Infinity in a page range: above every page number
NoNextStart == 1000

\* analyzedPages.filter(p => p.pageNumber >= lo && p.pageNumber < hi), the
\* analyzed pages being given by their page numbers
PagesInRange(analyzed, lo, hi) ==
  SelectSeq(analyzed, LAMBDA pageNumber : pageNumber >= lo /\ pageNumber < hi)

\* part.chapters[i]?.startPage || Infinity
StartOrInfinity(chapters, i) ==
  IF i <= Len(chapters) THEN chapters[i].startPage ELSE NoNextStart

\* chapterData: the pages from the chapter's start to the next chapter of the
\* same part
groupChapter(part, c, analyzed) ==
  [at |-> part.chapters[c].at,
   pages |-> PagesInRange(analyzed, part.chapters[c].startPage,
                          StartOrInfinity(part.chapters, c + 1))]

\* partData: the pages from the part's start to its first chapter, and the
\* chapters
groupPart(part, analyzed) ==
  [at |-> part.at,
   pages |-> PagesInRange(analyzed, part.startPage,
                          StartOrInfinity(part.chapters, 1)),
   chapters |-> [c \in 1..Len(part.chapters) |-> groupChapter(part, c, analyzed)]]

\* the page numbers found in grouped.parts
assignedPages(parts) ==
  UNION {{parts[p].pages[i] : i \in 1..Len(parts[p].pages)} \cup
         UNION {{parts[p].chapters[c].pages[i] :
                   i \in 1..Len(parts[p].chapters[c].pages)} :
                c \in 1..Len(parts[p].chapters)} :
         p \in 1..Len(parts)}

groupAnalysisByStructure(analyzed, structure) ==
  LET group(parts) ==
        [parts |-> parts,
         orphanPages |-> SelectSeq(analyzed,
                           LAMBDA pageNumber : pageNumber \notin assignedPages(parts))]
  IN Apply(group, [p \in 1..Len(structure.parts) |->
                     groupPart(structure.parts[p], analyzed)])

\* one analyzed page per page of the document, in page order
AnalyzedPageNumbers(docPages) == [n \in 1..Len(docPages) |-> n]

InitGroup == InitScan

\* structure = detectStructure(pages), then, with one analyzed page per
\* page, groupAnalysisByStructure(analyzedPages, structure)
GroupAnalysis ==
  /\ fpc = "input"
  /\ LET grouped(docPages) ==
           groupAnalysisByStructure(AnalyzedPageNumbers(docPages),
                                    detectPartsAndChapters(docPages))
     IN output' = Apply(grouped, PagesOf(input.items, << >>))
  /\ fpc' = "returned"
  /\ UNCHANGED <<cvars, ovars, input, store, now, requests, responses>>

NextGroup == GroupAnalysis

SpecGroup == InitGroup /\ [][NextGroup]_vars

\* the buckets of grouped that hold the page
Holds(list, pageNumber) == \E i \in 1..Len(list) : list[i] = pageNumber

BucketsOf(grouped, pageNumber) ==
  {[kind |-> "part", part |-> part, chapter |-> 0] : part \in
     {part \in 1..Len(grouped.parts) : Holds(grouped.parts[part].pages, pageNumber)}}
  \cup
  UNION {{[kind |-> "chapter", part |-> part, chapter |-> chapter] : chapter \in
            {chapter \in 1..Len(grouped.parts[part].chapters) :
               Holds(grouped.parts[part].chapters[chapter].pages, pageNumber)}} :
         part \in 1..Len(grouped.parts)}
  \cup
  (IF Holds(grouped.orphanPages, pageNumber)
   THEN {[kind |-> "orphan", part |-> 0, chapter |-> 0]} ELSE {})

\* C30 (as claimed): groupAnalysisByStructure places every analyzed page in
\* exactly one bucket: the direct pages of one Part, the pages of one
\* Chapter, or orphanPages.
C30_EveryPageInExactlyOneBucket ==
  fpc = "returned" =>
    \A pageNumber \in 1..Len(PagesOf(input.items, << >>)) :
      Cardinality(BucketsOf(output, pageNumber)) = 1

\* ------------------------------------------------------ cacheService.js: Cache

\* new Cache(name, { maxSize })
maxSize == 2

MaxTime == 3
MaxCount == 2

\* Infinity: above every finite time the model reaches; Plus keeps it so
Infinity == 1000

Plus(a, b) == IF a = Infinity \/ b = Infinity THEN Infinity ELSE a + b

\* the keys and the TTLs of the calls
CacheKeys == {"", "a", "b"}
CacheTtls == {1, 2, Infinity}

\* if (oldestKey): null and the empty string are falsy
Truthy(key) == key \notin {"null", ""}

\* this.store is a Map: entries in insertion order, one per key
KeyIndex(entries, key) ==
  IF \E i \in 1..Len(entries) : entries[i].key = key
  THEN CHOOSE i \in 1..Len(entries) : entries[i].key = key
  ELSE 0

\* Map.prototype.delete
MapDelete(entries, key) == SelectSeq(entries, LAMBDA entry : entry.key # key)

\* Map.prototype.set: a key already there keeps its place
MapSet(entries, key, expiresAt) ==
  IF KeyIndex(entries, key) > 0
  THEN [entries EXCEPT ![KeyIndex(entries, key)].expiresAt = expiresAt]
  ELSE Append(entries, [key |-> key, expiresAt |-> expiresAt])

\* the loop of evictOldest over entries i..: the key it ends with
RECURSIVE OldestFrom(_, _, _, _)
OldestFrom(entries, i, oldestKey, oldestTime) ==
  IF i > Len(entries) THEN oldestKey
  ELSE IF entries[i].expiresAt < oldestTime
  THEN OldestFrom(entries, i + 1, entries[i].key, entries[i].expiresAt)
  ELSE OldestFrom(entries, i + 1, oldestKey, oldestTime)

evictOldest(entries) ==
  LET oldestKey == OldestFrom(entries, 1, "null", Infinity)
  IN IF Truthy(oldestKey) THEN MapDelete(entries, oldestKey) ELSE entries

\* Date.now() > entry.expiresAt
Expired(entry, time) == time > entry.expiresAt

InitCache ==
  /\ ClassifierOff /\ OrchestratorOff
  /\ fpc = "off" /\ input = << >> /\ output = << >>
  /\ store = [entries |-> << >>, hits |-> 0, misses |-> 0]
  /\ now = 0
  /\ requests = << >> /\ responses = << >>

cacheRest == <<cvars, ovars, fpc, input, output, requests, responses>>

\* set(key, value, ttlMs)
CacheSet(key, ttlMs) ==
  /\ LET kept == IF Len(store.entries) >= maxSize
                 THEN evictOldest(store.entries) ELSE store.entries
     IN store' = [store EXCEPT !.entries = MapSet(kept, key, Plus(now, ttlMs))]
  /\ UNCHANGED <<cacheRest, now>>

\* get(key)
CacheGet(key) ==
  /\ LET i == KeyIndex(store.entries, key)
     IN IF i = 0
        THEN /\ store.misses < MaxCount
             /\ store' = [store EXCEPT !.misses = @ + 1]
        ELSE IF Expired(store.entries[i], now)
        THEN /\ store.misses < MaxCount
             /\ store' = [store EXCEPT !.entries = MapDelete(@, key), !.misses = @ + 1]
        ELSE /\ store.hits < MaxCount
             /\ store' = [store EXCEPT !.hits = @ + 1]
  /\ UNCHANGED <<cacheRest, now>>

\* has(key): a change of state only when it finds the entry expired
CacheHas(key) ==
  /\ KeyIndex(store.entries, key) > 0
  /\ Expired(store.entries[KeyIndex(store.entries, key)], now)
  /\ store' = [store EXCEPT !.entries = MapDelete(@, key)]
  /\ UNCHANGED <<cacheRest, now>>

\* delete(key)
CacheDelete(key) ==
  /\ KeyIndex(store.entries, key) > 0
  /\ store' = [store EXCEPT !.entries = MapDelete(@, key)]
  /\ UNCHANGED <<cacheRest, now>>

\* cleanup()
CacheCleanup ==
  /\ \E i \in 1..Len(store.entries) : Expired(store.entries[i], now)
  /\ store' = [store EXCEPT !.entries =
                 SelectSeq(@, LAMBDA entry : ~Expired(entry, now))]
  /\ UNCHANGED <<cacheRest, now>>

\* Date.now() moves on
CacheTick ==
  /\ now < MaxTime
  /\ now' = now + 1
  /\ UNCHANGED <<cacheRest, store>>

NextCache ==
  \/ \E key \in CacheKeys, ttlMs \in CacheTtls : CacheSet(key, ttlMs)
  \/ \E key \in CacheKeys : CacheGet(key)
  \/ \E key \in CacheKeys : CacheHas(key)
  \/ \E key \in CacheKeys : CacheDelete(key)
  \/ CacheCleanup
  \/ CacheTick

SpecCache == InitCache /\ [][NextCache]_vars

\* C19: after any sequence of set, get, has, delete and cleanup calls,
\* whatever the keys and the TTLs, the cache never holds more than maxSize
\* entries.
C19_SizeNeverExceedsMaxSize == Len(store.entries) <= maxSize

\* ------------------------------------------------ rateLimiter.js: RateLimiter

\* new RateLimiter({ windowMs, max })
windowMs == 2
max == 2

MaxNow == 4
MaxRequests == 5

\* getKey(req): the client keys of the requests
LimiterKeys == {"a", "b"}

NoWindow == [present |-> FALSE, count |-> 0, windowStart |-> 0]

\* a test that lets one request more through
OverLimitOffByOne(count) == count > max + 1

\* if (data.count > this.max)
OverLimit(count) == count > max

\* now - data.windowStart > this.windowMs
WindowOver(data, time) == time - data.windowStart > windowMs

InitLimiter ==
  /\ ClassifierOff /\ OrchestratorOff
  /\ fpc = "off" /\ input = << >> /\ output = << >>
  /\ store = << >>
  /\ now = 0
  /\ requests = [key \in LimiterKeys |-> NoWindow]
  /\ responses = << >>

limiterRest == <<cvars, ovars, fpc, input, output, store>>

Respond(key, status) ==
  responses' = Append(responses, [key |-> key, time |-> now, status |-> status])

\* the middleware, for one request of the client key
Request(key) ==
  /\ Len(responses) < MaxRequests
  /\ IF ~requests[key].present \/ WindowOver(requests[key], now)
     THEN /\ requests' = [requests EXCEPT ![key] =
                            [present |-> TRUE, count |-> 1, windowStart |-> now]]
          /\ Respond(key, "next")
     ELSE /\ requests' = [requests EXCEPT ![key].count = @ + 1]
          /\ IF OverLimit(requests[key].count + 1)
             THEN Respond(key, "429")
             ELSE Respond(key, "next")
  /\ UNCHANGED <<limiterRest, now>>

\* cleanup(), run by the interval timer
LimiterCleanup ==
  /\ \E key \in LimiterKeys : requests[key].present /\ WindowOver(requests[key], now)
  /\ requests' = [key \in LimiterKeys |->
                    IF requests[key].present /\ WindowOver(requests[key], now)
                    THEN NoWindow ELSE requests[key]]
  /\ UNCHANGED <<limiterRest, now, responses>>

\* Date.now() moves on
LimiterTick ==
  /\ now < MaxNow
  /\ now' = now + 1
  /\ UNCHANGED <<limiterRest, requests, responses>>

NextLimiter ==
  \/ \E key \in LimiterKeys : Request(key)
  \/ LimiterCleanup
  \/ LimiterTick

SpecLimiter == InitLimiter /\ [][NextLimiter]_vars

\* the request before request i with the same client key, or 0
RECURSIVE PreviousOfKey(_, _, _)
PreviousOfKey(log, key, j) ==
  IF j = 0 THEN 0
  ELSE IF log[j].key = key THEN j
  ELSE PreviousOfKey(log, key, j - 1)

\* the time of the first request of the window request i falls in, from the
\* times of that key's requests alone: a window lasts windowMs from its first
\* request, and the first request after it opens the next one
RECURSIVE WindowFirstRequest(_, _)
WindowFirstRequest(log, i) ==
  LET before == PreviousOfKey(log, log[i].key, i - 1)
  IN IF before = 0 THEN log[i].time
     ELSE LET opened == WindowFirstRequest(log, before)
          IN IF log[i].time - opened > windowMs THEN log[i].time ELSE opened

\* the requests up to request i of its key and its window
SameWindowUpTo(log, i) ==
  {j \in 1..i : /\ log[j].key = log[i].key
                /\ WindowFirstRequest(log, j) = WindowFirstRequest(log, i)}

\* C20: for each client key, the first max requests of a window (windowMs
\* from the window's first request) are passed to next and every further
\* request of that key in that window is answered 429, whatever the other
\* keys' traffic.
C20_AtMostMaxPerWindow ==
  \A i \in 1..Len(responses) :
    responses[i].status =
      (IF Cardinality(SameWindowUpTo(responses, i)) <= max THEN "next" ELSE "429")

\* one key is over its limit in a window, the other key is admitted in
\* between, and the first key is admitted again in its next window
C20_Witness ==
  \E i, j, k \in 1..Len(responses) :
    /\ i < j /\ j < k
    /\ responses[i].key = "a" /\ responses[i].status = "429"
    /\ responses[j].key = "b" /\ responses[j].status = "next"
    /\ responses[j].time = responses[i].time
    /\ responses[k].key = "a" /\ responses[k].status = "next"

====
